---- MODULE Spec2Model ----
(***************************************************************************)
(* CaMeL: capability-tracking interpreter values, the capability algebra   *)
(* (sources, readers, dependency traversals) and the security-policy       *)
(* engine that gates tool calls.                                           *)
(*                                                                         *)
(* Values are objects with identity, kept in `heap` (index = id()).  A     *)
(* value met during a traversal is a reference record                      *)
(*     [id, base, extra]                                                   *)
(* where base is the heap object whose payload (_python_value), metadata   *)
(* and _dependencies it carries, extra are dependencies appended by        *)
(* new_with_dependencies on a copy.copy made while traversing (attribute   *)
(* reads of class instances), and id is the identity of the object: <<n>>  *)
(* for heap object n, a longer path for a copy made during a traversal.    *)
(* Tool names and glob patterns are sequences of one-character strings.    *)
(* A string value has one character; its raw is the name of that character.*)
(***************************************************************************)
EXTENDS Integers, Sequences, FiniteSets, TLC

VARIABLES heap, variables, policies, no_side_effect_tools, tool_calls, pipeline, attempts, evaluated,
          messages, execution_trace

vars == <<heap, variables, policies, no_side_effect_tools, tool_calls, pipeline, attempts, evaluated,
          messages, execution_trace>>

(* ------------------------------ bounds -------------------------------- *)
MaxLiterals == 1
MaxLists == 2
MaxInstances == 1
MaxDerived == 1
MaxCalls == 2
RecursionLimit == 12

(* --------------------------- tool names ------------------------------- *)
query_ai_assistant == <<"q","a">>
get_user_info == <<"g","u">>
read_file == <<"r","f">>
get_iban == <<"g","i">>
send_money == <<"s","m">>
schedule_transaction == <<"s","t">>
update_scheduled_transaction == <<"u","s">>
update_password == <<"u","p">>
update_user_info == <<"u","u">>
get_balance == <<"g","b">>
get_most_recent_transactions == <<"g","m">>
get_scheduled_transactions == <<"g","s">>
get_file_by_id == <<"g","f">>
send_email == <<"s","e">>
reserve_hotel == <<"r","h">>
get_rating_reviews_for_hotels == <<"g","r">>
create_calendar_event == <<"c","e">>
delete_email == <<"d","e">>

\* the tools registered in the runtime; heap[i] is the callable of ToolList[i]
ToolList == <<query_ai_assistant, read_file, get_file_by_id, update_user_info>>

\* tools of the travel and workspace suites, registered after the class and
\* the empty argument tuple when the session uses them
TravelTools == <<send_email, get_rating_reviews_for_hotels, create_calendar_event, delete_email>>

FnId(tool) ==
    IF \E i \in 1..Len(ToolList) : ToolList[i] = tool
    THEN CHOOSE i \in 1..Len(ToolList) : ToolList[i] = tool
    ELSE Len(ToolList) + 2 + CHOOSE i \in 1..Len(TravelTools) : TravelTools[i] = tool

\* heap id of the class bound in the namespace
ClassId == Len(ToolList) + 1

\* The positional-arguments tuple of a call.  Every call of the session
\* passes its arguments by keyword, so the tuple is empty; an empty tuple has
\* no dependencies and no elements, and one object stands for all of them.
EmptyArgs == ClassId + 1

_USER_EMAIL == "emma"

(* ------------------------ sources and readers ------------------------- *)
SourceEnum(n) == [kind |-> "enum", name |-> <<n>>, inner |-> {}]

Tool(t, inner_sources) == [kind |-> "tool", name |-> t, inner |-> inner_sources]

Public == [public |-> TRUE, set |-> {}]

Readers(S) == [public |-> FALSE, set |-> S]

\* readers meet: Public & X = X, S1 & S2 = S1 \cap S2
ReadersAnd(a, b) ==
    IF a.public THEN b
    ELSE IF b.public THEN a
    ELSE Readers(a.set \cap b.set)

Capabilities(sources_set, readers_set) == [sources |-> sources_set, readers |-> readers_set]

CapabilitiesCamel == Capabilities({SourceEnum("CaMeL")}, Public)

CapabilitiesDefault == Capabilities({}, Public)

_TRUSTED_SET == {"User", "CaMeL", "Assistant", "TrustedToolSource"}

\* a variant of _source_is_trusted without the test for empty inner_sources
_source_is_trusted_any_inner(s) ==
    \/ s.kind = "enum" /\ s.name[1] \in _TRUSTED_SET
    \/ s.kind = "tool" /\ s.inner \subseteq _TRUSTED_SET

_source_is_trusted(s) ==
    \/ s.kind = "enum" /\ s.name[1] \in _TRUSTED_SET
    \/ s.kind = "tool" /\ s.inner # {} /\ s.inner \subseteq _TRUSTED_SET

(* ----------------------------- messages ------------------------------- *)
\* a chat message: its role, its text as tokens, the attempt it belongs to
\* and, for a tool result, the index of the call in the log
Message(role, content, attempt, call) ==
    [role |-> role, content |-> content, attempt |-> attempt, call |-> call]

\* pattern in text
Contains(text, pattern) ==
    \E i \in 0..(Len(text) - Len(pattern)) : \A j \in 1..Len(pattern) : text[i + j] = pattern[j]

(* ------------------------------ values -------------------------------- *)
Obj(kind, raw, metadata, dependencies, elems) ==
    [kind |-> kind, raw |-> raw, sources |-> metadata.sources, readers |-> metadata.readers,
     deps |-> dependencies, keys |-> <<>>, elems |-> elems, frozen |-> FALSE]

\* a CaMeLDict: keys[i] is the key object of elems[i]; 0 stands for a string
\* literal key that nothing else refers to
DictObj(metadata, dependencies, keys, elems) ==
    [Obj("dict", "", metadata, dependencies, elems) EXCEPT !.keys = keys]

HeapRef(n) == [id |-> <<n>>, base |-> n, extra |-> <<>>]

\* the object attr() builds with copy.copy + new_with_dependencies((self,)):
\* a new object each time, so its identity also names the stack depth at
\* which it was made
CopyRef(n, parent, k, depth) ==
    [id |-> parent.id \o <<k, n, depth>>, base |-> n, extra |-> <<parent>>]

RefSeq(ids) == [i \in 1..Len(ids) |-> HeapRef(ids[i])]

\* value._dependencies
Dependencies(h, r) == RefSeq(h[r.base].deps) \o r.extra


(* --------------------------- traversals ------------------------------- *)
\* Every traversal returns [ok, ...]; ok = FALSE is Python's RecursionError,
\* raised when the call stack would exceed RecursionLimit frames.
RecursionError == [ok |-> FALSE, deps |-> <<>>, visited |-> {}, val |-> {}]

DepsResult(dependencies, visited_objects) ==
    [ok |-> TRUE, deps |-> dependencies, visited |-> visited_objects, val |-> {}]

RECURSIVE get_dependencies(_, _, _, _)
RECURSIVE IterableLoop(_, _, _, _, _)
RECURSIVE MappingLoop(_, _, _, _, _)
RECURSIVE InstanceLoop(_, _, _, _, _)

\* CaMeLIterable.get_dependencies, the loop over self._python_value
IterableLoop(h, r, i, acc, fuel) ==
    IF ~acc.ok \/ i > Len(h[r.base].elems) THEN acc
    ELSE LET el == get_dependencies(h, HeapRef(h[r.base].elems[i]), acc.visited \cup {r.id}, fuel - 1)
         IN  IterableLoop(h, r, i + 1,
                 IF el.ok THEN DepsResult(acc.deps \o el.deps, el.visited) ELSE RecursionError,
                 fuel)

\* CaMeLStr is a CaMeLIterable of _CaMeLChar, and from_raw gives every
\* character the dependencies of the string; the base get_dependencies of
\* the last character forgets the visited set.  Strings have one character.
StrDeps(id, dependencies, visited_objects) ==
    IF id \in visited_objects THEN DepsResult(dependencies, visited_objects)
    ELSE DepsResult(dependencies \o dependencies, {id \o <<0>>, id})

\* dependencies of the i-th key of a dict
KeyDeps(h, r, i, visited_objects, fuel) ==
    IF h[r.base].keys[i] = 0 THEN StrDeps(r.id \o <<0 - i>>, <<>>, visited_objects)
    ELSE get_dependencies(h, HeapRef(h[r.base].keys[i]), visited_objects, fuel - 1)

\* CaMeLMapping.get_dependencies, the loop over self._python_value.items()
MappingLoop(h, r, i, acc, fuel) ==
    IF ~acc.ok \/ i > Len(h[r.base].elems) THEN acc
    ELSE LET k == KeyDeps(h, r, i, acc.visited, fuel)
             v == IF k.ok
                  THEN get_dependencies(h, HeapRef(h[r.base].elems[i]), k.visited, fuel - 1)
                  ELSE RecursionError
         IN  MappingLoop(h, r, i + 1,
                 IF v.ok THEN DepsResult(acc.deps \o k.deps \o v.deps, v.visited) ELSE RecursionError,
                 fuel)

\* CaMeLClassInstance.get_dependencies, the loop over self.attr_names().
\* Attribute 0 is a raw Python payload, which attr() wraps with value_from_raw
\* (no dependencies); attribute -1 is a CaMeLValue without dependencies that
\* only the instance refers to (value_from_raw converted it), which attr()
\* copies with new_with_dependencies((self,)).
InstanceLoop(h, r, i, acc, fuel) ==
    IF ~acc.ok \/ i > Len(h[r.base].elems) THEN acc
    ELSE LET a  == h[r.base].elems[i]
             at == IF a = 0 THEN DepsResult(<<>>, {r.id \o <<i, 0, fuel>>})
                   ELSE IF a < 0 THEN DepsResult(<<r>>, {r.id \o <<i, a, fuel>>})
                   ELSE get_dependencies(h, CopyRef(a, r, i, fuel), acc.visited \cup {r.id}, fuel - 1)
         IN  InstanceLoop(h, r, i + 1,
                 IF at.ok THEN DepsResult(acc.deps \o at.deps, at.visited) ELSE RecursionError,
                 fuel)

get_dependencies(h, r, visited_objects, fuel) ==
    IF fuel <= 0 THEN RecursionError
    ELSE LET dependencies == Dependencies(h, r)
             kind == h[r.base].kind
         IN  CASE kind \in {"list", "tuple", "set"} ->
                    IF r.id \in visited_objects THEN DepsResult(dependencies, visited_objects)
                    ELSE LET res == IterableLoop(h, r, 1, DepsResult(dependencies, visited_objects), fuel)
                         IN  IF res.ok THEN DepsResult(res.deps, res.visited \cup {r.id}) ELSE res
               [] kind = "dict" ->
                    IF r.id \in visited_objects THEN DepsResult(dependencies, visited_objects)
                    ELSE MappingLoop(h, r, 1, DepsResult(dependencies, visited_objects \cup {r.id}), fuel)
               [] kind \in {"instance", "class"} ->
                    IF r.id \in visited_objects THEN DepsResult(dependencies, visited_objects)
                    ELSE InstanceLoop(h, r, 1, DepsResult(dependencies, visited_objects), fuel)
               [] kind = "str" -> StrDeps(r.id, dependencies, visited_objects)
               [] kind = "wrapper" -> DepsResult(dependencies, visited_objects \cup {r.id})
               [] OTHER -> DepsResult(dependencies, {r.id})

ValResult(value, visited_objects) ==
    [ok |-> TRUE, deps |-> <<>>, visited |-> visited_objects, val |-> value]

\* the meet of a set of readers: Public when all are Public, else the members
\* common to all the concrete sets
MeetAll(S) ==
    IF \A x \in S : x.public THEN Public
    ELSE Readers({m \in UNION {x.set : x \in S} : \A x \in S : x.public \/ m \in x.set})

\* a variant of get_all_readers that does not recurse into the dependencies
get_all_readers_shallow(h, r, visited_objects, fuel) ==
    LET g == get_dependencies(h, r, {}, fuel - 1)
    IN  ValResult(MeetAll({h[r.base].readers} \cup {h[g.deps[i].base].readers : i \in 1..Len(g.deps)}),
                  visited_objects \cup {r.id})

RECURSIVE get_all_readers(_, _, _, _)
RECURSIVE ReadersLoop(_, _, _, _, _, _)

ReadersLoop(h, r, dependencies, i, acc, fuel) ==
    IF ~acc.ok \/ i > Len(dependencies) THEN acc
    ELSE LET d == get_all_readers(h, dependencies[i], acc.visited \cup {r.id}, fuel - 1)
         IN  ReadersLoop(h, r, dependencies, i + 1,
                 IF d.ok THEN ValResult(ReadersAnd(acc.val, d.val), d.visited) ELSE RecursionError,
                 fuel)

get_all_readers(h, r, visited_objects, fuel) ==
    IF fuel <= 0 THEN RecursionError
    ELSE IF r.id \in visited_objects THEN ValResult(h[r.base].readers, visited_objects)
    ELSE LET g == get_dependencies(h, r, {}, fuel - 1)
         IN  IF ~g.ok THEN RecursionError
             ELSE LET res == ReadersLoop(h, r, g.deps, 1, ValResult(h[r.base].readers, visited_objects), fuel)
                  IN  IF res.ok THEN ValResult(res.val, res.visited \cup {r.id}) ELSE res

\* a variant of get_all_sources that does not recurse into the dependencies
get_all_sources_shallow(h, r, visited_objects, fuel) ==
    LET g == get_dependencies(h, r, {}, fuel - 1)
    IN  ValResult(h[r.base].sources \cup UNION {h[g.deps[i].base].sources : i \in 1..Len(g.deps)},
                  visited_objects \cup {r.id})

RECURSIVE get_all_sources(_, _, _, _)
RECURSIVE SourcesLoop(_, _, _, _, _, _)

SourcesLoop(h, r, dependencies, i, acc, fuel) ==
    IF ~acc.ok \/ i > Len(dependencies) THEN acc
    ELSE LET d == get_all_sources(h, dependencies[i], acc.visited \cup {r.id}, fuel - 1)
         IN  SourcesLoop(h, r, dependencies, i + 1,
                 IF d.ok THEN ValResult(acc.val \cup d.val, d.visited) ELSE RecursionError,
                 fuel)

get_all_sources(h, r, visited_objects, fuel) ==
    IF fuel <= 0 THEN RecursionError
    ELSE IF r.id \in visited_objects THEN ValResult({}, visited_objects)
    ELSE LET g == get_dependencies(h, r, {}, fuel - 1)
         IN  IF ~g.ok THEN RecursionError
             ELSE SourcesLoop(h, r, g.deps, 1, ValResult(h[r.base].sources, visited_objects), fuel)

\* a variant of can_readers_read_value that asks for one common reader
can_readers_read_value_any(h, potential_readers, r) ==
    LET answer(a) == IF ~a.ok THEN "RecursionError"
                     ELSE IF a.val.public \/ potential_readers \cap a.val.set # {} THEN "True"
                     ELSE "False"
    IN  answer(get_all_readers(h, r, {}, RecursionLimit))

\* The outcome of a predicate is "True", "False" or "RecursionError".
Outcome(b) == IF b THEN "True" ELSE "False"

is_public(h, r) ==
    LET answer(a) == IF a.ok THEN Outcome(a.val.public) ELSE "RecursionError"
    IN  answer(get_all_readers(h, r, {}, RecursionLimit))

can_readers_read_value(h, potential_readers, r) ==
    LET answer(a) == IF ~a.ok THEN "RecursionError"
                     ELSE IF a.val.public THEN "True"
                     ELSE Outcome(potential_readers \subseteq a.val.set)
    IN  answer(get_all_readers(h, r, {}, RecursionLimit))

is_trusted(h, r) ==
    LET answer(a) ==
            IF a.ok THEN Outcome(\A source \in a.val : _source_is_trusted(source)) ELSE "RecursionError"
    IN  answer(get_all_sources(h, r, {}, RecursionLimit))


(* ------------------------- security policy ---------------------------- *)
\* fnmatch.fnmatch on a case-sensitive platform: '*' matches any run of
\* characters, '?' one character, anything else itself
RECURSIVE fnmatch(_, _)
fnmatch(name, pat) ==
    IF pat = <<>> THEN name = <<>>
    ELSE IF Head(pat) = "*"
         THEN fnmatch(name, Tail(pat)) \/ (name # <<>> /\ fnmatch(Tail(name), pat))
    ELSE /\ name # <<>>
         /\ Head(pat) = "?" \/ Head(pat) = Head(name)
         /\ fnmatch(Tail(name), Tail(pat))

Allowed == [result |-> "Allowed", reason |-> ""]

Denied(reason) == [result |-> "Denied", reason |-> reason]

\* an exception leaving the policy function instead of a decision
Raised(exception) == [result |-> exception, reason |-> ""]

\* kwargs is the ordered mapping <<[name, value], ...>>, value a heap id
HasKey(kwargs, n) == \E i \in 1..Len(kwargs) : kwargs[i].name = n

Get(kwargs, n) == kwargs[CHOOSE i \in 1..Len(kwargs) : kwargs[i].name = n].value

RECURSIVE TrustedFieldsLoop(_, _, _, _)
TrustedFieldsLoop(h, fields, i, kwargs) ==
    IF i > Len(fields) THEN Allowed
    ELSE IF ~HasKey(kwargs, fields[i]) THEN Raised("KeyError")
    ELSE LET t == is_trusted(h, HeapRef(Get(kwargs, fields[i])))
         IN  IF t = "RecursionError" THEN Raised("RecursionError")
             ELSE IF t = "False" THEN Denied("does not come directly from user")
             ELSE TrustedFieldsLoop(h, fields, i + 1, kwargs)

make_trusted_fields_policy(h, fields, kwargs) == TrustedFieldsLoop(h, fields, 1, kwargs)

update_password_policy(h, kwargs) ==
    IF ~HasKey(kwargs, "password") THEN Raised("KeyError")
    ELSE LET t == is_trusted(h, HeapRef(Get(kwargs, "password")))
         IN  IF t = "RecursionError" THEN Raised("RecursionError")
             ELSE IF t = "True" THEN Allowed
             ELSE Denied("The password does not come from the user.")

\* all(is_trusted(kwarg) for kwarg in kwargs.values())
RECURSIVE AllTrusted(_, _, _)
AllTrusted(h, kwargs, i) ==
    IF i > Len(kwargs) THEN "True"
    ELSE LET t == is_trusted(h, HeapRef(kwargs[i].value))
         IN  IF t = "True" THEN AllTrusted(h, kwargs, i + 1) ELSE t

update_user_info_policy(h, kwargs) ==
    LET t == AllTrusted(h, kwargs, 1)
    IN  IF t = "RecursionError" THEN Raised("RecursionError")
        ELSE IF t = "True" THEN Allowed
        ELSE Denied("The user information does not come from the user.")

\* the three can_readers_read_value checks of send_money_policy
RECURSIVE ReadableLoop(_, _, _, _, _)
ReadableLoop(h, recipients_set, names, i, kwargs) ==
    IF i > Len(names) THEN Allowed
    ELSE IF ~HasKey(kwargs, names[i]) THEN Raised("KeyError")
    ELSE LET c == can_readers_read_value(h, recipients_set, HeapRef(Get(kwargs, names[i])))
         IN  IF c = "RecursionError" THEN Raised("RecursionError")
             ELSE IF c = "False" THEN Denied("The recipients can't read the transaction.")
             ELSE ReadableLoop(h, recipients_set, names, i + 1, kwargs)

send_money_policy(h, kwargs) ==
    IF ~HasKey(kwargs, "recipient") THEN Raised("KeyError")
    ELSE LET recipient == Get(kwargs, "recipient")
             t == is_trusted(h, HeapRef(recipient))
         IN  IF t = "RecursionError" THEN Raised("RecursionError")
             ELSE IF t = "False" THEN Denied("The recipient does not come directly from the user.")
             ELSE ReadableLoop(h, {h[recipient].raw}, <<"subject", "amount", "date">>, 1, kwargs)

\* recipients.add(extra) when the keyword is present and a list: a new list
\* with Capabilities.camel() that depends on both lists.  Returns the heap
\* with the new list and its id.
AddRecipients(hr, kwargs, name) ==
    IF HasKey(kwargs, name) /\ hr.h[Get(kwargs, name)].kind = "list"
    THEN [h |-> Append(hr.h, Obj("list", "", CapabilitiesCamel, <<hr.recipients, Get(kwargs, name)>>,
                                  hr.h[hr.recipients].elems \o hr.h[Get(kwargs, name)].elems)),
          recipients |-> Len(hr.h) + 1]
    ELSE hr

\* TravelSecurityPolicyEngine.send_email_policy
send_email_policy(h0, kwargs) ==
    IF ~HasKey(kwargs, "recipients") THEN Raised("KeyError")
    ELSE LET hr == AddRecipients(AddRecipients([h |-> h0, recipients |-> Get(kwargs, "recipients")],
                                               kwargs, "cc"), kwargs, "bcc")
             h == hr.h
             t == is_trusted(h, HeapRef(hr.recipients))
             recipients_set == {h[h[hr.recipients].elems[i]].raw : i \in 1..Len(h[hr.recipients].elems)}
             readable(name) == can_readers_read_value(h, recipients_set, HeapRef(Get(kwargs, name)))
         IN  IF t = "RecursionError" THEN Raised("RecursionError")
             ELSE IF t = "True" THEN Allowed
             ELSE IF ~HasKey(kwargs, "body") THEN Raised("KeyError")
             ELSE IF readable("body") = "RecursionError" THEN Raised("RecursionError")
             ELSE IF readable("body") = "False"
                  THEN Denied("Body is not public or shared with the recipients")
             ELSE IF ~HasKey(kwargs, "subject") THEN Raised("KeyError")
             ELSE IF readable("subject") = "RecursionError" THEN Raised("RecursionError")
             ELSE IF readable("subject") = "False"
                  THEN Denied("Subject is not public or shared with the recipients")
             ELSE IF ~HasKey(kwargs, "attachments") THEN Allowed
             ELSE IF readable("attachments") = "RecursionError" THEN Raised("RecursionError")
             ELSE IF readable("attachments") = "False"
                  THEN Denied("Attachments are not public or shared with the recipients")
             ELSE Allowed

\* TravelSecurityPolicyEngine.create_calendar_event_policy
create_calendar_event_policy(h, kwargs) ==
    IF ~HasKey(kwargs, "participants") THEN Raised("KeyError")
    ELSE LET answer(t) == IF t = "RecursionError" THEN Raised("RecursionError")
                          ELSE IF t = "True" THEN Allowed
                          ELSE Raised("NotImplementedError")
         IN  answer(is_trusted(h, HeapRef(Get(kwargs, "participants"))))

\* WorkspaceSecurityPolicyEngine.delete_email_policy
delete_email_policy(h, kwargs) ==
    IF ~HasKey(kwargs, "email_id") THEN Raised("KeyError")
    ELSE LET answer(t) == IF t = "RecursionError" THEN Raised("RecursionError")
                          ELSE IF t = "True"
                               THEN Denied("Email to be deleted does not come directly from user")
                          ELSE Allowed
         IN  answer(is_trusted(h, HeapRef(Get(kwargs, "email_id"))))

Policy(fn, fields) == [fn |-> fn, fields |-> fields]

\* policy(tool_name, kwargs)
CallPolicy(h, policy, tool_name, kwargs) ==
    CASE policy.fn \in {"send_money_policy", "schedule_transaction_policy",
                         "update_scheduled_transaction_policy"} -> send_money_policy(h, kwargs)
      [] policy.fn = "send_email_policy" -> send_email_policy(h, kwargs)
      [] policy.fn = "create_calendar_event_policy" -> create_calendar_event_policy(h, kwargs)
      [] policy.fn = "delete_email_policy" -> delete_email_policy(h, kwargs)
      [] policy.fn = "update_password_policy" -> update_password_policy(h, kwargs)
      [] policy.fn = "update_user_info_policy" -> update_user_info_policy(h, kwargs)
      [] OTHER -> make_trusted_fields_policy(h, policy.fields, kwargs)

NO_SIDE_EFFECT_TOOLS == {query_ai_assistant}

banking_no_side_effect_tools ==
    {get_iban, get_balance, get_most_recent_transactions, get_scheduled_transactions,
     read_file, get_user_info}

\* BankingSecurityPolicyEngine.__init__
BankingSecurityPolicyEngine ==
    [policies |-> << <<send_money, Policy("send_money_policy", <<>>)>>,
                     <<schedule_transaction, Policy("schedule_transaction_policy", <<>>)>>,
                     <<update_scheduled_transaction, Policy("update_scheduled_transaction_policy", <<>>)>>,
                     <<update_password, Policy("update_password_policy", <<>>)>>,
                     <<update_user_info, Policy("update_user_info_policy", <<>>)>> >>,
     no_side_effect_tools |-> NO_SIDE_EFFECT_TOOLS \cup banking_no_side_effect_tools]

\* TravelSecurityPolicyEngine.__init__, without the rules of the tools the
\* session does not register
workspace_travel_no_side_effect_tools == {get_rating_reviews_for_hotels}

TravelSecurityPolicyEngine ==
    [policies |-> << <<send_email, Policy("send_email_policy", <<>>)>>,
                     <<create_calendar_event, Policy("create_calendar_event_policy", <<>>)>>,
                     <<reserve_hotel, Policy("make_trusted_fields_policy", <<"hotel", "start_day", "end_day">>)>> >>,
     no_side_effect_tools |-> NO_SIDE_EFFECT_TOOLS \cup workspace_travel_no_side_effect_tools]

\* the tools of workspace_no_side_effect_tools that the runtime registers
workspace_no_side_effect_tools == {get_file_by_id}

\* WorkspaceSecurityPolicyEngine.__init__, without the rules of the tools
\* the session does not register
WorkspaceSecurityPolicyEngine ==
    [policies |-> << <<send_email, Policy("send_email_policy", <<>>)>>,
                     <<delete_email, Policy("delete_email_policy", <<>>)>> >>,
     no_side_effect_tools |-> NO_SIDE_EFFECT_TOOLS \cup workspace_no_side_effect_tools]

\* Engines of the SecurityPolicyEngine protocol with other rule lists: glob
\* patterns that overlap, and no rule at all.
RuleTrustedFirstName == <<<<"u", "*">>, Policy("make_trusted_fields_policy", <<"first_name">>)>>
RuleUserInfo == <<<<"u", "?">>, Policy("update_user_info_policy", <<>>)>>
RuleSendMoney == <<<<"s", "*">>, Policy("send_money_policy", <<>>)>>

Engines ==
    { BankingSecurityPolicyEngine,
      [policies |-> <<RuleTrustedFirstName, RuleUserInfo, RuleSendMoney>>,
       no_side_effect_tools |-> NO_SIDE_EFFECT_TOOLS \cup workspace_no_side_effect_tools],
      [policies |-> <<>>, no_side_effect_tools |-> NO_SIDE_EFFECT_TOOLS] }

\* the rules whose pattern matches, in list order
Matching(rules, tool_name) == {i \in 1..Len(rules) : fnmatch(tool_name, rules[i][1])}

LastMatching(rules, tool_name) ==
    CHOOSE i \in Matching(rules, tool_name) : \A j \in Matching(rules, tool_name) : i >= j

\* the rule the for loop of check_policy returns from
FirstMatching(rules, tool_name) ==
    CHOOSE i \in Matching(rules, tool_name) : \A j \in Matching(rules, tool_name) : i <= j

\* value.raw terminates: no container or instance reachable through
\* elements, keys and attributes contains itself
RECURSIVE RawOk(_, _, _)
RawOk(h, n, fuel) ==
    IF n <= 0 THEN TRUE
    ELSE IF fuel <= 0 THEN FALSE
    ELSE /\ \A i \in 1..Len(h[n].elems) : RawOk(h, h[n].elems[i], fuel - 1)
         /\ \A i \in 1..Len(h[n].keys) : RawOk(h, h[n].keys[i], fuel - 1)

\* variants of check_policy with one of its steps changed
check_policy_default_allow(h, rules, nse, tool_name, kwargs, dependencies) ==
    IF tool_name \in nse THEN [result |-> "Allowed", reason |-> "", rule |-> 0]
    ELSE IF \E i \in 1..Len(dependencies) : is_public(h, HeapRef(dependencies[i])) # "True"
    THEN [result |-> "Denied", reason |-> "depends on private values", rule |-> 0]
    ELSE IF Matching(rules, tool_name) = {}
    THEN [result |-> "Allowed", reason |-> "", rule |-> 0]
    ELSE LET i == FirstMatching(rules, tool_name)
             indexed(res) == [result |-> res.result, reason |-> res.reason, rule |-> i]
         IN  indexed(CallPolicy(h, rules[i][2], tool_name, kwargs))

check_policy_rules_first(h, rules, nse, tool_name, kwargs, dependencies) ==
    IF tool_name \in nse THEN [result |-> "Allowed", reason |-> "", rule |-> 0]
    ELSE IF Matching(rules, tool_name) # {}
    THEN LET i == FirstMatching(rules, tool_name)
             indexed(res) == [result |-> res.result, reason |-> res.reason, rule |-> i]
         IN  indexed(CallPolicy(h, rules[i][2], tool_name, kwargs))
    ELSE IF \E i \in 1..Len(dependencies) : is_public(h, HeapRef(dependencies[i])) # "True"
    THEN [result |-> "Denied", reason |-> "depends on private values", rule |-> 0]
    ELSE [result |-> "Denied", reason |-> "No security policy matched for tool.", rule |-> 0]

check_policy_no_bypass(h, rules, nse, tool_name, kwargs, dependencies) ==
    IF \E i \in 1..Len(dependencies) : is_public(h, HeapRef(dependencies[i])) # "True"
    THEN [result |-> "Denied", reason |-> "depends on private values", rule |-> 0]
    ELSE IF Matching(rules, tool_name) = {}
    THEN [result |-> "Denied", reason |-> "No security policy matched for tool.", rule |-> 0]
    ELSE LET i == FirstMatching(rules, tool_name)
             indexed(res) == [result |-> res.result, reason |-> res.reason, rule |-> i]
         IN  indexed(CallPolicy(h, rules[i][2], tool_name, kwargs))

\* SecurityPolicyEngine.check_policy; rule is the index of the rule whose
\* policy function ran, 0 when none did.  The comprehension asks is_public
\* of every dependency and takes the raw value of the non-public ones.
check_policy(h, rules, nse, tool_name, kwargs, dependencies) ==
    IF tool_name \in nse THEN [result |-> "Allowed", reason |-> "", rule |-> 0]
    ELSE LET pub == [i \in 1..Len(dependencies) |-> is_public(h, HeapRef(dependencies[i]))]
         IN  IF \E i \in 1..Len(dependencies) :
                    \/ pub[i] = "RecursionError"
                    \/ pub[i] = "False" /\ ~RawOk(h, dependencies[i], RecursionLimit)
             THEN [result |-> "RecursionError", reason |-> "", rule |-> 0]
             ELSE IF \E i \in 1..Len(dependencies) : pub[i] = "False"
             THEN [result |-> "Denied", reason |-> "depends on private values", rule |-> 0]
             ELSE IF Matching(rules, tool_name) = {}
             THEN [result |-> "Denied", reason |-> "No security policy matched for tool.", rule |-> 0]
             ELSE LET i == FirstMatching(rules, tool_name)
                      indexed(res) == [result |-> res.result, reason |-> res.reason, rule |-> i]
                  IN  indexed(CallPolicy(h, rules[i][2], tool_name, kwargs))


(* ----------------------------- tools ---------------------------------- *)
\* parameter names of the registered tools, in schema order
Params(tool) ==
    CASE tool = query_ai_assistant -> <<"query">>
      [] tool = read_file -> <<"file_path">>
      [] tool = get_file_by_id -> <<"file_id">>
      [] tool = send_money -> <<"recipient", "amount", "subject", "date">>
      [] tool = send_email -> <<"recipients", "subject", "body">>
      [] tool = get_rating_reviews_for_hotels -> <<"hotel_names">>
      [] tool = create_calendar_event -> <<"participants", "title">>
      [] tool = delete_email -> <<"email_id">>
      [] tool = update_user_info -> <<"first_name", "last_name">>
      [] OTHER -> <<>>

\* a call passes p for the first parameter and q for every other one
Kwargs(tool, p, q) ==
    [i \in 1..Len(Params(tool)) |-> [name |-> Params(tool)[i], value |-> IF i = 1 THEN p ELSE q]]

\* _transform_user_email_to_user
_transform_user_email_to_user(users) ==
    {IF u = _USER_EMAIL THEN "User" ELSE u : u \in users}

\* the files get_file_by_id can return: [owner and rw editors, shared_with]
Files ==
    { [editors |-> {_USER_EMAIL}, shared_with |-> {"bob", "carol"}],
      [editors |-> {_USER_EMAIL, "eve"}, shared_with |-> {"bob", "eve"}] }

\* _get_cloud_drive_file_metadata
_get_cloud_drive_file_metadata(file, tool) ==
    Capabilities({Tool(tool, _transform_user_email_to_user(file.editors))}, Readers(file.shared_with))

\* what the tool returns, wrapped by value_from_raw and relabelled by
\* _get_metadata_for_ad; dependencies are added by wrap_output
ToolReturns(tool) ==
    CASE tool = read_file ->
              {Obj("str", "eve", Capabilities({Tool(tool, {})}, Readers({})), <<>>, <<>>)}
      [] tool = send_money ->
              {Obj("str", "ok", Capabilities({Tool(tool, {})}, Readers({})), <<>>, <<>>)}
      [] tool = get_iban ->
              {Obj("str", "iban", Capabilities({Tool(tool, {"TrustedToolSource"})}, Public), <<>>, <<>>)}
      [] tool = update_user_info ->
              {DictObj(Capabilities({Tool(tool, {"User"})}, Readers({})), <<>>, <<>>, <<>>)}
      [] tool = get_file_by_id ->
              {Obj("instance", "", _get_cloud_drive_file_metadata(f, tool), <<>>, <<0 - 1>>) : f \in Files}
      [] tool = get_rating_reviews_for_hotels ->
              {DictObj(Capabilities({Tool(tool, {"User"})}, Public), <<>>, <<>>, <<>>)}
      [] OTHER ->
              {Obj("str", "eve", Capabilities({Tool(tool, {})}, Public), <<>>, <<>>)}

(* --------------------------- the session ------------------------------ *)
\* the namespace after construction: the tools' callables
\* (make_agentdojo_namespace) and a class; the engine is one of Engines.
\* pipeline names the pipeline element that drives the interpreter and
\* attempts is the log of the code fragments it has run, and evaluated is
\* the log of the expressions the interpreter has evaluated.
Init ==
    /\ heap = [i \in 1..EmptyArgs |->
                 IF i = ClassId THEN Obj("class", "", CapabilitiesDefault, <<>>, <<>>)
                 ELSE IF i = EmptyArgs THEN Obj("tuple", "", CapabilitiesDefault, <<>>, <<>>)
                 ELSE Obj("callable", "", CapabilitiesCamel, <<>>, <<>>)]
    /\ variables = {ClassId}
    /\ \E e \in Engines : policies = e.policies /\ no_side_effect_tools = e.no_side_effect_tools
    /\ tool_calls = <<>>
    /\ pipeline = "PrivilegedLLM"
    /\ attempts = <<>>
    /\ evaluated = <<>>
    /\ messages = <<Message("user", <<"query">>, 0, 0)>>
    /\ execution_trace = <<>>

Values == variables \ {ClassId}

\* the values of a kind the session has built itself
Built(kinds) ==
    {v \in Values : heap[v].kind \in kinds /\ (heap[v].deps = <<>> \/ heap[v].deps[1] > Len(ToolList))}

Alloc(objs) ==
    /\ heap' = heap \o objs

\* a literal: Capabilities.default() and no dependencies
Literal(kind) ==
    /\ Cardinality(Built({"int", "str"})) < MaxLiterals
    /\ Alloc(<<Obj(kind, IF kind = "int" THEN "1" ELSE "bob", CapabilitiesDefault, <<>>, <<>>)>>)
    /\ variables' = variables \cup {Len(heap) + 1}
    /\ UNCHANGED <<execution_trace, policies, no_side_effect_tools, tool_calls, pipeline, attempts, evaluated, messages>>

\* a list display [e1, ..., en]
ListDisplay(elems) ==
    /\ Cardinality(Built({"list"})) < MaxLists
    /\ Alloc(<<Obj("list", "", CapabilitiesDefault, <<>>, elems)>>)
    /\ variables' = variables \cup {Len(heap) + 1}
    /\ UNCHANGED <<execution_trace, policies, no_side_effect_tools, tool_calls, pipeline, attempts, evaluated, messages>>

(* ---------------------------- expressions ----------------------------- *)
MaxEvaluated == 1

\* one entry of the evaluation log: the operation, its operands with the
\* _dependencies each had before, the value it produced (0 when it raised)
\* and the error it raised ("" when none)
Evaluation(op, operands, result, error) ==
    [op |-> op, operands |-> operands, result |-> result, error |-> error,
     before |-> [i \in 1..Len(operands) |-> heap[operands[i]].deps],
     mutated |-> FALSE, raws |-> <<>>]

\* The payload of a number is written as a string: ToString(i) for the int
\* i and ToString(i) \o "/2" for the float i/2.  A bool counts as the int 1
\* or 0.  Halves(kind, raw) is twice the number.
NumRange == 0 - 8 .. 8

Numbers == {"int", "float", "bool"}

Halves(kind, raw) ==
    CASE kind = "int" -> 2 * (CHOOSE i \in NumRange : ToString(i) = raw)
      [] kind = "float" -> CHOOSE i \in NumRange : ToString(i) \o "/2" = raw
      [] OTHER -> IF raw = "True" THEN 2 ELSE 0

NumRaw(kind, halves) ==
    IF kind = "int" THEN ToString(halves \div 2) ELSE ToString(halves) \o "/2"

Containers == {"list", "tuple", "set", "dict"}

\* self.eq(value).raw: CaMeLValue.eq compares the payloads; an instance is
\* equal to itself.  CaMeLIterable.eq and CaMeLMapping.eq answer False for
\* a value of another type and otherwise compare the elements that zip
\* pairs up.  A key 0 is a string literal.
RECURSIVE camel_eq(_, _, _)
camel_eq(h, self, value) ==
    IF self = 0 \/ value = 0 THEN self = value
    ELSE LET a == h[self]
             b == h[value]
             n == IF Len(a.elems) < Len(b.elems) THEN Len(a.elems) ELSE Len(b.elems)
         IN  CASE a.kind = "dict" ->
                    /\ b.kind = "dict"
                    /\ \A i \in 1..n : /\ camel_eq(h, a.keys[i], b.keys[i])
                                       /\ camel_eq(h, a.elems[i], b.elems[i])
               [] a.kind \in Containers ->
                    /\ b.kind = a.kind
                    /\ \A i \in 1..n : camel_eq(h, a.elems[i], b.elems[i])
               [] a.kind = "str" -> b.kind = "str" /\ a.raw = b.raw
               [] a.kind \in Numbers ->
                    b.kind \in Numbers /\ Halves(a.kind, a.raw) = Halves(b.kind, b.raw)
               [] OTHER -> self = value

\* the step of the interpreter that evaluates an expression to result (an
\* object, or <<>> with the error raised) and binds it
Evaluate(op, operands, result, error) ==
    /\ Len(evaluated) < MaxEvaluated
    /\ Alloc(result)
    /\ variables' = variables \cup {Len(heap) + i : i \in 1..Len(result)}
    /\ evaluated' = Append(evaluated, Evaluation(op, operands, IF result = <<>> THEN 0 ELSE Len(heap) + 1, error))
    /\ UNCHANGED <<execution_trace, policies, no_side_effect_tools, tool_calls, pipeline, attempts, messages>>

\* CaMeLValue.eq, CaMeLIterable.eq, CaMeLMapping.eq: a CaMeLTrue or
\* CaMeLFalse with Capabilities.camel() that depends on both operands
eq(self, value) ==
    /\ Cardinality(Built({"bool"})) < MaxDerived
    /\ Evaluate("eq", <<self, value>>,
                <<Obj("bool", IF camel_eq(heap, self, value) THEN "True" ELSE "False",
                      CapabilitiesCamel, <<self, value>>, <<>>)>>, "")

\* a variant of unary that labels every result with Capabilities.camel()
unary_camel(self) ==
    LET v == heap[self]
    IN  /\ v.kind \in {"int", "float"}
        /\ Evaluate("unary", <<self>>,
               <<Obj(v.kind, NumRaw(v.kind, 0 - Halves(v.kind, v.raw)), CapabilitiesCamel,
                     IF v.kind = "int" THEN <<self>> \o v.deps ELSE <<self>>, <<>>)>>, "")

\* CaMeLInt.unary and CaMeLFloat.unary, as the expression -self
unary(self) ==
    LET v == heap[self]
        r == NumRaw(v.kind, 0 - Halves(v.kind, v.raw))
    IN  /\ v.kind \in {"int", "float"}
        /\ Evaluate("unary", <<self>>,
               <<IF v.kind = "int"
                 THEN Obj("int", r, Capabilities(v.sources, v.readers), <<self>> \o v.deps, <<>>)
                 ELSE Obj("float", r, CapabilitiesCamel, <<self>>, <<>>)>>, "")

\* the elements of self | other for two sets or two dicts: Python keeps the
\* elements (keys) of self and adds those of other that self has not
Merged(a, b) ==
    a \o SelectSeq(b, LAMBDA e : \A i \in 1..Len(a) : a[i] # e)

\* add of CaMeLInt, CaMeLFloat, CaMeLTuple and CaMeLList as self + other,
\* bit_or of CaMeLSet and CaMeLDict as self | other
add(self, other) ==
    LET a == heap[self]
        b == heap[other]
        kind == IF a.kind = "float" THEN "float" ELSE b.kind
        sum == (Halves(a.kind, a.raw) + Halves(b.kind, b.raw)) \div (IF kind = "int" THEN 2 ELSE 1)
        keys == Merged(a.keys, b.keys)
        item(k) == IF \E i \in 1..Len(b.keys) : b.keys[i] = k
                   THEN b.elems[CHOOSE i \in 1..Len(b.keys) : b.keys[i] = k]
                   ELSE a.elems[CHOOSE i \in 1..Len(a.keys) : a.keys[i] = k]
    IN  /\ \/ a.kind \in {"int", "float"} /\ b.kind \in {"int", "float"} /\ sum \in NumRange
           \/ a.kind \in Containers /\ b.kind = a.kind
        /\ Evaluate("add", <<self, other>>,
               <<CASE a.kind = "dict" ->
                        DictObj(CapabilitiesCamel, <<self, other>>, keys, [i \in 1..Len(keys) |-> item(keys[i])])
                   [] a.kind = "set" ->
                        Obj("set", "", CapabilitiesCamel, <<self, other>>, Merged(a.elems, b.elems))
                   [] a.kind \in {"list", "tuple"} ->
                        Obj(a.kind, "", CapabilitiesCamel, <<self, other>>, a.elems \o b.elems)
                   [] OTHER ->
                        Obj(kind, NumRaw(kind, IF kind = "int" THEN 2 * sum ELSE sum),
                            CapabilitiesCamel, <<self, other>>, <<>>)>>, "")

\* the values a traversal returned, as the objects they are
Bases(g) == [i \in 1..Len(g.deps) |-> g.deps[i].base]

\* the dependencies of every key of a dict, each key traversed afresh
RECURSIVE KeysDependencies(_, _, _)
KeysDependencies(h, self, i) ==
    IF i > Len(h[self].keys) THEN DepsResult(<<>>, {})
    ELSE LET k == KeyDeps(h, HeapRef(self), i, {}, RecursionLimit)
             rest == KeysDependencies(h, self, i + 1)
         IN  IF k.ok /\ rest.ok THEN DepsResult(k.deps \o rest.deps, {}) ELSE RecursionError

\* CaMeLIterable.contains, CaMeLMapping.contains and CaMeLStr.contains, as
\* the expression other in self.  A string has one character, so a string
\* is a substring of another exactly when they are equal.
contains(self, other) ==
    LET c == heap[self]
        among == IF c.kind = "dict" THEN c.keys ELSE c.elems
        matches == {i \in 1..Len(among) : camel_eq(heap, among[i], other)}
        inner_element == among[CHOOSE i \in matches : \A j \in matches : i <= j]
        g == get_dependencies(heap, HeapRef(self), {}, RecursionLimit)
        o == get_dependencies(heap, HeapRef(other), {}, RecursionLimit)
        k == KeysDependencies(heap, self, 1)
        True(dependencies) == <<Obj("bool", "True", CapabilitiesCamel, dependencies, <<>>)>>
        False(dependencies) == <<Obj("bool", "False", CapabilitiesCamel, dependencies, <<>>)>>
    IN  /\ c.kind \in Containers \cup {"str"}
        /\ CASE c.kind = "str" ->
                  IF heap[other].kind # "str" THEN Evaluate("contains", <<self, other>>, <<>>, "TypeError")
                  ELSE IF heap[other].raw = c.raw
                  THEN IF o.ok THEN Evaluate("contains", <<self, other>>, True(<<self>> \o Bases(o)), "")
                       ELSE Evaluate("contains", <<self, other>>, <<>>, "RecursionError")
                  ELSE IF g.ok THEN Evaluate("contains", <<self, other>>, False(Bases(g) \o <<other>>), "")
                       ELSE Evaluate("contains", <<self, other>>, <<>>, "RecursionError")
             [] c.kind = "dict" ->
                  IF matches # {}
                  THEN Evaluate("contains", <<self, other>>, True(<<self, other, inner_element>>), "")
                  ELSE IF k.ok THEN Evaluate("contains", <<self, other>>, False(<<self, other>> \o Bases(k)), "")
                       ELSE Evaluate("contains", <<self, other>>, <<>>, "RecursionError")
             [] OTHER ->
                  IF matches # {}
                  THEN Evaluate("contains", <<self, other>>, True(<<self, other, inner_element>>), "")
                  ELSE IF g.ok THEN Evaluate("contains", <<self, other>>, False(Bases(g) \o <<other>>), "")
                       ELSE Evaluate("contains", <<self, other>>, <<>>, "RecursionError")

\* CaMeLValue.new_with_dependencies: a copy with the dependencies appended
new_with_dependencies(v, dependencies) ==
    [v EXCEPT !.deps = @ \o dependencies]

\* CaMeLSequence.index, as the expression self[index]; Python counts from 0
\* and a negative index counts from the end
index(self, i) ==
    LET c == heap[self]
        len_ == IF c.kind = "str" THEN 1 ELSE Len(c.elems)
        at == Halves("int", heap[i].raw) \div 2
        pos == IF at < 0 THEN len_ + at + 1 ELSE at + 1
    IN  /\ c.kind \in {"list", "tuple", "str"}
        /\ heap[i].kind = "int"
        /\ IF pos \notin 1..len_ THEN Evaluate("index", <<self, i>>, <<>>, "IndexError")
           ELSE Evaluate("index", <<self, i>>,
                    <<new_with_dependencies(IF c.kind = "str" THEN c ELSE heap[c.elems[pos]], <<self, i>>)>>, "")

\* CaMeLClassInstance.attr, as the expression self.f for the attribute f
attr(self) ==
    LET v == heap[self]
        a == v.elems[1]
    IN  /\ v.kind = "instance"
        /\ v.elems # <<>>
        /\ Evaluate("attr", <<self>>,
               <<IF a = 0 THEN Obj("int", "1", CapabilitiesCamel, <<>>, <<>>)
                 ELSE IF a < 0 THEN Obj("str", "eve", Capabilities(v.sources, v.readers), <<self>>, <<>>)
                 ELSE new_with_dependencies(heap[a], <<self>>)>>, "")

\* CaMeLMutableSequence.set_index, as the statement l[idx] = value
set_index(self, idx, value) ==
    /\ heap[self].kind = "list"
    /\ idx \in 1..Len(heap[self].elems)
    /\ heap' = [heap EXCEPT ![self].elems[idx] = value]
    /\ UNCHANGED <<execution_trace, variables, policies, no_side_effect_tools, tool_calls, pipeline, attempts, evaluated, messages>>

\* CaMeLClass.init through CaMeLClass.call: the instance is built from raw
\* arguments and depends on its class
init ==
    /\ Cardinality(Built({"instance"})) < MaxInstances
    /\ Alloc(<<Obj("instance", "", Capabilities(heap[ClassId].sources, heap[ClassId].readers),
                   <<ClassId>>, <<0>>)>>)
    /\ variables' = variables \cup {Len(heap) + 1}
    /\ UNCHANGED <<execution_trace, policies, no_side_effect_tools, tool_calls, pipeline, attempts, evaluated, messages>>

\* CaMeLClassInstance.set_field, as the statement a.f = value.  A
\* CaMeLValueAsWrapper stores value.raw: its attribute names the value whose
\* raw payload the Python attribute holds.
set_field(self, value) ==
    /\ heap[self].kind \in {"instance", "wrapper"}
    /\ ~heap[self].frozen
    /\ heap[self].elems # <<>>
    /\ heap' = [heap EXCEPT ![self].elems[1] = value]
    /\ UNCHANGED <<execution_trace, variables, policies, no_side_effect_tools, tool_calls, pipeline, attempts, evaluated, messages>>

\* the kinds of value whose freeze is CaMeLClassInstance.freeze or its
\* override in CaMeLValueAsWrapper
Freezable == {"instance", "wrapper"}

\* CaMeLClassInstance.freeze sets _frozen; CaMeLValueAsWrapper.freeze only
\* returns the CaMeLNone.  The log entry keeps the attributes at that time.
freeze(self) ==
    /\ heap[self].kind \in Freezable
    /\ Len(evaluated) < MaxEvaluated
    /\ heap' = [heap EXCEPT ![self].frozen = IF heap[self].kind = "instance" THEN TRUE ELSE @]
                \o <<Obj("None", "", CapabilitiesCamel, <<self>>, <<>>)>>
    /\ evaluated' = Append(evaluated, [Evaluation("freeze", <<self>>, Len(heap) + 1, "")
                                         EXCEPT !.raws = heap[self].elems])
    /\ UNCHANGED <<execution_trace, variables, policies, no_side_effect_tools, tool_calls, pipeline, attempts, messages>>

\* The call site of the interpreter: a tool outside the engine's
\* no-side-effect set runs only if check_policy returns Allowed for the
\* call's keyword arguments and the dependencies of the program point.
call_unchecked(h, rules, nse, tool_name, kwargs, dependencies) == TRUE

call_allowed(h, rules, nse, tool_name, kwargs, dependencies) ==
    \/ tool_name \in nse
    \/ check_policy(h, rules, nse, tool_name, kwargs, dependencies).result = "Allowed"

\* A call of a tool: the interpreter evaluates the arguments, asks the policy
\* engine, and only then invokes AgentDojoFunction.call, which turns the
\* arguments into raw values, runs the tool and wraps what it returns.
\* A call that is denied, or whose policy check or raw conversion raises,
\* ends the run with the error and leaves the state as it was.  The log
\* entry of a checked call keeps the dependencies it was checked with.
EvalCall(tool, kwargs, dependencies) ==
    LET n == Len(heap)
    IN  /\ Len(tool_calls) < MaxCalls
        /\ call_allowed(heap, policies, no_side_effect_tools, tool, kwargs, dependencies)
        /\ \A i \in 1..Len(kwargs) : RawOk(heap, kwargs[i].value, RecursionLimit)
        /\ \E out \in ToolReturns(tool) :
              Alloc(<< DictObj(CapabilitiesDefault, <<>>, [i \in 1..Len(kwargs) |-> 0],
                               [i \in 1..Len(kwargs) |-> kwargs[i].value]),
                       [out EXCEPT !.deps = <<FnId(tool), EmptyArgs, n + 1>>] >>)
        /\ variables' = variables \cup {n + 2}
        /\ tool_calls' = Append(tool_calls,
              [function |-> tool, args |-> kwargs,
               dependencies |-> IF tool \in no_side_effect_tools THEN <<>> ELSE dependencies])
        /\ UNCHANGED <<execution_trace, policies, no_side_effect_tools, pipeline, attempts, evaluated, messages>>

\* the keyword arguments a program can pass to a tool
KwargsSet(tool) == {Kwargs(tool, p, q) : p \in Values, q \in Values}

ElemSeqs == {<<>>} \cup {<<a>> : a \in Values} \cup {<<a, b>> : a \in Values, b \in Values}

DepSeqs == {<<>>} \cup {<<d>> : d \in Values}

\* a run of the interpreter over scalar values: literals, comparisons and
\* tool calls under one of the engines
Next ==
    \/ \E kind \in {"str"} : Literal(kind)
    \/ \E self \in Values, value \in Values : eq(self, value)
    \/ \E i \in 1..Len(ToolList) : \E kwargs \in KwargsSet(ToolList[i]), dependencies \in DepSeqs :
          EvalCall(ToolList[i], kwargs, dependencies)

Spec == Init /\ [][Next]_vars

\* a run of the interpreter that builds and mutates containers and class
\* instances, with no tool call
InitContainers == Init /\ policies = <<>>

NextContainers ==
    \/ \E kind \in {"int", "str"} : Literal(kind)
    \/ \E elems \in ElemSeqs : ListDisplay(elems)
    \/ \E self \in Values, idx \in 1..2, value \in Values : set_index(self, idx, value)
    \/ init
    \/ \E self \in Values, value \in Values : set_field(self, value)

SpecContainers == InitContainers /\ [][NextContainers]_vars

(* --------------------- claims: the policy engine ---------------------- *)
\* tool names a program can call: the registered tools and tools of the
\* suite that the engines name
ToolNames ==
    {ToolList[i] : i \in 1..Len(ToolList)} \cup {send_money, update_password, get_iban}

\* check_policy as the engine of the session computes it on the current heap
Check(tool, kwargs, dependencies) ==
    check_policy(heap, policies, no_side_effect_tools, tool, kwargs, dependencies)

AllPublic(dependencies) ==
    \A i \in 1..Len(dependencies) : is_public(heap, HeapRef(dependencies[i])) = "True"

\* C1 (policy soundness): every logged call of a tool outside the
\* no-side-effect set is a call for which check_policy, on the call's own
\* arguments and dependencies, returns Allowed; a denied call is never logged
\* or run.
C1_PolicySoundness ==
    \A i \in 1..Len(tool_calls) :
        tool_calls[i].function \notin no_side_effect_tools
            => Check(tool_calls[i].function, tool_calls[i].args,
                     tool_calls[i].dependencies).result = "Allowed"

\* a side-effecting tool has run after the check, in a state where the same
\* tool is denied for other arguments
C1_Witness ==
    \E i \in 1..Len(tool_calls), p \in Values, q \in Values :
        /\ tool_calls[i].function \notin no_side_effect_tools
        /\ Check(tool_calls[i].function, tool_calls[i].args,
                 tool_calls[i].dependencies).result = "Allowed"
        /\ Check(tool_calls[i].function, Kwargs(tool_calls[i].function, p, q), <<>>).result = "Denied"

\* C2 (default deny): for a tool outside the no-side-effect set, with every
\* dependency public, check_policy returns Denied when no rule's pattern
\* matches the tool name, also when the rule list is empty.
C2_DefaultDeny ==
    \A tool \in ToolNames :
        ( /\ tool \notin no_side_effect_tools
          /\ \A i \in 1..Len(policies) : ~fnmatch(tool, policies[i][1]) )
            => \A dependencies \in DepSeqs :
                   AllPublic(dependencies)
                       => \A kwargs \in KwargsSet(tool) :
                              Check(tool, kwargs, dependencies).result = "Denied"

\* with an empty rule list and with a rule list that has no matching
\* pattern, a call with a public dependency is denied
C2_Witness ==
    \E tool \in ToolNames, p \in Values, d \in Values :
        /\ tool \notin no_side_effect_tools
        /\ AllPublic(<<d>>)
        /\ policies = <<>>
        /\ Check(tool, Kwargs(tool, p, p), <<d>>).result = "Denied"

\* C3 (non-public dependency): for a tool outside the no-side-effect set,
\* if some dependency is not public then check_policy returns Denied and no
\* rule's policy function runs, even when the first matching rule would
\* return Allowed.
C3_PrivateDependencyDenied ==
    \A dependencies \in DepSeqs :
        (\E i \in 1..Len(dependencies) :
            ~get_all_readers(heap, HeapRef(dependencies[i]), {}, RecursionLimit).val.public)
            => \A tool \in ToolNames \ no_side_effect_tools :
                   \A kwargs \in KwargsSet(tool) :
                       LET res == Check(tool, kwargs, dependencies)
                       IN  res.result = "Denied" /\ res.rule = 0

\* a call that its first matching rule allows is denied because of a
\* dependency that is not public
C3_Witness ==
    \E tool \in ToolNames, p \in Values, q \in Values, d \in Values :
        /\ tool \notin no_side_effect_tools
        /\ ~get_all_readers(heap, HeapRef(d), {}, RecursionLimit).val.public
        /\ Check(tool, Kwargs(tool, p, q), <<>>).result = "Allowed"
        /\ Check(tool, Kwargs(tool, p, q), <<d>>).result = "Denied"

\* C4 (no-side-effect bypass): for every tool in the engine's
\* no-side-effect set check_policy returns Allowed, whatever the arguments
\* and the dependencies, public or not, matched by a rule or not.
C4_NoSideEffectAllowed ==
    \A tool \in ToolNames \cap no_side_effect_tools :
        \A kwargs \in KwargsSet(tool), dependencies \in DepSeqs :
            Check(tool, kwargs, dependencies).result = "Allowed"

\* under the banking engine a no-side-effect tool that no rule matches is
\* allowed with a dependency that is not public
C4_Witness ==
    \E tool \in banking_no_side_effect_tools \cap ToolNames, p \in Values, d \in Values :
        /\ tool \in no_side_effect_tools
        /\ policies = BankingSecurityPolicyEngine.policies
        /\ \A i \in 1..Len(policies) : ~fnmatch(tool, policies[i][1])
        /\ ~get_all_readers(heap, HeapRef(d), {}, RecursionLimit).val.public
        /\ Check(tool, Kwargs(tool, p, p), <<d>>).result = "Allowed"

\* the matching rule with no matching rule before it
IsFirstMatch(tool, i) ==
    /\ i \in 1..Len(policies)
    /\ fnmatch(tool, policies[i][1])
    /\ \A j \in 1..(i - 1) : ~fnmatch(tool, policies[j][1])

DirectDeps(r) ==
    LET g == get_dependencies(heap, r, {}, RecursionLimit)
    IN  {g.deps[i] : i \in 1..Len(g.deps)}

RECURSIVE Closure(_, _)
Closure(S, n) ==
    LET T == S \cup UNION {DirectDeps(r) : r \in S}
    IN  IF T = S \/ n = 0 THEN T ELSE Closure(T, n - 1)

\* v and every value v depends on, directly or transitively
Reach(v) == Closure({HeapRef(v)}, RecursionLimit)

Objects == 1..Len(heap)

Untrusted(r) == \E s \in heap[r.base].sources : ~_source_is_trusted(s)

\* C6 (trust propagation): if a value that a depends on, directly or
\* transitively, carries an untrusted source in its own sources_set, then
\* is_trusted(a) is false; for every value a, so for every call argument.
C6_TrustPropagation ==
    \A a \in Objects :
        (\E b \in Reach(a) : Untrusted(b)) => is_trusted(heap, HeapRef(a)) = "False"

\* an argument of a logged call whose own sources are trusted depends on an
\* untrusted tool output and is not trusted; and some value is untrusted
\* only through a dependency of a dependency
C6_Witness ==
    /\ \E i \in 1..Len(tool_calls) : \E k \in 1..Len(tool_calls[i].args) :
          LET a == tool_calls[i].args[k].value
          IN  /\ ~Untrusted(HeapRef(a))
              /\ \E b \in DirectDeps(HeapRef(a)) : Untrusted(b)
              /\ is_trusted(heap, HeapRef(a)) = "False"
    /\ \E v \in Objects :
          /\ \A b \in {HeapRef(v)} \cup DirectDeps(HeapRef(v)) : ~Untrusted(b)
          /\ \E b \in Reach(v) : Untrusted(b)
          /\ is_trusted(heap, HeapRef(v)) = "False"

\* the readers_set of v and of every value v depends on
ReachReaders(v) == {heap[u.base].readers : u \in Reach(v)}

\* C7 (public and all-readers): is_public(v) is true exactly when the
\* readers_set of v and of every value it transitively depends on is Public;
\* otherwise get_all_readers(v) is the intersection of the concrete reader
\* sets among them.
C7_AllReaders ==
    \A v \in Objects :
        LET all == get_all_readers(heap, HeapRef(v), {}, RecursionLimit)
            concrete == {x.set : x \in {y \in ReachReaders(v) : ~y.public}}
        IN  /\ all.ok
            /\ is_public(heap, HeapRef(v)) = Outcome(concrete = {})
            /\ concrete # {}
                  => /\ ~all.val.public
                     /\ all.val.set = {m \in UNION concrete : \A S \in concrete : m \in S}

\* a value with a concrete reader set depends, through a dependency of a
\* dependency, on a value with another one, and its readers are their
\* intersection, smaller than both
C7_Witness ==
    \E v \in Objects : \E u \in Reach(v) \ ({HeapRef(v)} \cup DirectDeps(HeapRef(v))) :
        LET x == heap[v].readers
            y == heap[u.base].readers
        IN  /\ ~x.public /\ ~y.public
            /\ x.set \cap y.set # x.set /\ x.set \cap y.set # y.set /\ x.set \cap y.set # {}
            /\ get_all_readers(heap, HeapRef(v), {}, RecursionLimit).val = Readers(x.set \cap y.set)
            /\ is_public(heap, HeapRef(v)) = "False"

\* principals that read values
ReaderNames == {"bob", "carol", "eve"}

\* C8 (reader restriction): can_readers_read_value(R, v) is true iff
\* get_all_readers(v) is Public or R is a subset of it; so it is false when
\* a member of R is missing from the concrete reader set of v or of a value
\* v depends on.
C8_ReaderRestriction ==
    \A v \in Objects : \A R \in SUBSET ReaderNames :
        LET all == get_all_readers(heap, HeapRef(v), {}, RecursionLimit).val
            can == can_readers_read_value(heap, R, HeapRef(v))
        IN  /\ can = Outcome(all.public \/ \A m \in R : m \in all.set)
            /\ (\E x \in ReachReaders(v) : ~x.public /\ \E m \in R : m \notin x.set)
                  => can = "False"

\* a value whose reader set is the intersection of two sets can be read by
\* the common reader and not together with a reader of only one of them
C8_Witness ==
    \E v \in Objects : \E x \in ReachReaders(v), m \in ReaderNames, k \in ReaderNames :
        /\ ~x.public /\ m \in x.set /\ k \in x.set
        /\ can_readers_read_value(heap, {m}, HeapRef(v)) = "True"
        /\ can_readers_read_value(heap, {m, k}, HeapRef(v)) = "False"
        /\ can_readers_read_value(heap, {}, HeapRef(v)) = "True"

\* the sources a program can meet
SourceUniverse ==
    {SourceEnum(n) : n \in {"User", "Assistant", "CaMeL", "TrustedToolSource"}}
        \cup {Tool(t, inner) : t \in ToolNames,
                               inner \in SUBSET {"User", "CaMeL", "TrustedToolSource", "eve"}}
        \cup UNION {heap[v].sources : v \in Objects}

TrustedEnum == {<<"User">>, <<"Assistant">>, <<"CaMeL">>, <<"TrustedToolSource">>}

\* a source is trusted iff it is one of the four principals, or a Tool with
\* non-empty inner_sources that are all among the four
TrustedSource(s) ==
    \/ s.kind = "enum" /\ s.name \in TrustedEnum
    \/ s.kind = "tool" /\ s.inner # {} /\ \A x \in s.inner : <<x>> \in TrustedEnum

\* C9 (trusted sources and values): _source_is_trusted holds exactly for the
\* four principals and for Tool sources with non-empty, all-trusted
\* inner_sources; a value is trusted iff every source of its propagated
\* source set is trusted, so a value with no source at all is trusted.
C9_Trusted ==
    /\ \A s \in SourceUniverse : _source_is_trusted(s) <=> TrustedSource(s)
    /\ \A v \in Objects :
          is_trusted(heap, HeapRef(v)) =
              Outcome(\A s \in UNION {heap[u.base].sources : u \in Reach(v)} : TrustedSource(s))

\* a value with an empty propagated source set is trusted, the output of a
\* Tool with trusted inner sources is trusted, and the output of a Tool with
\* empty inner_sources is not
C9_Witness ==
    /\ \E v \in Values :
          /\ UNION {heap[u.base].sources : u \in Reach(v)} = {}
          /\ is_trusted(heap, HeapRef(v)) = "True"
    /\ \E v \in Values : \E s \in heap[v].sources :
          /\ s.kind = "tool" /\ s.inner # {}
          /\ is_trusted(heap, HeapRef(v)) = "True"
    /\ \E v \in Values : \E s \in heap[v].sources :
          /\ s.kind = "tool" /\ s.inner = {}
          /\ is_trusted(heap, HeapRef(v)) = "False"

(* ------------------------ claims: termination ------------------------- *)
\* C10 (termination on cyclic graphs): get_dependencies, get_all_readers and
\* get_all_sources return on every value of every graph a program can build,
\* also after index and attribute assignments that make containers and
\* instances refer back to themselves; none of them ends in RecursionError.
C10_TraversalsTerminate ==
    \A v \in Objects :
        /\ get_dependencies(heap, HeapRef(v), {}, RecursionLimit).ok
        /\ get_all_readers(heap, HeapRef(v), {}, RecursionLimit).ok
        /\ get_all_sources(heap, HeapRef(v), {}, RecursionLimit).ok

(* ------------------- the pipeline: runs and retries ------------------- *)
MaxStatements == 2
MaxAttempts == 2

\* PrivilegedLLM.max_attempts, and the number of turns of a replayed trace
max_attempts == MaxAttempts

ExceptionKinds == {"ValueError", "KeyError"}

\* The statements of a code fragment:
\*   assign  x = 'bob'
\*   call    x = read_file(file_path='bob')
\*   raise   raise <kind>('Error!')  (arg = "literal")
\*           raise <kind>(x)         (arg = "name"; x is the last name bound)
Statements ==
    {[op |-> "assign", kind |-> "", arg |-> ""], [op |-> "call", kind |-> "", arg |-> ""]}
    \cup {[op |-> "raise", kind |-> k, arg |-> a] : k \in ExceptionKinds, a \in {"literal", "name"}}

Codes ==
    {<<s>> : s \in Statements} \cup {<<s, t>> : s \in Statements, t \in Statements}

\* what read_file can find in the file of the environment
FileContents == {"eve", "mallory"}

\* the exception value of an interpreter error: the message, and the values
\* the message was made from as dependencies
CaMeLException(message, dependencies) ==
    Obj("exception", message, CapabilitiesCamel, dependencies, <<>>)

\* the result of a run: error is 0 for Ok, else the heap id of the exception
\* raised at line lineno
InterpreterResult(h, namespace, calls, error, name, lineno) ==
    [heap |-> h, namespace |-> namespace, tool_calls |-> calls,
     error |-> error, name |-> name, lineno |-> lineno]

\* the value bound last: the one with the greatest identity
LastBound(namespace) == CHOOSE v \in namespace : \A w \in namespace : w <= v

\* camel_eval over the statements from line i on: a binding made by a
\* statement stays in the namespace that is returned, with Ok and with Error
RECURSIVE camel_eval(_, _, _, _, _, _)
camel_eval(h, namespace, calls, code, i, content) ==
    IF i > Len(code) THEN InterpreterResult(h, namespace, calls, 0, "", 0)
    ELSE LET n == Len(h)
             st == code[i]
         IN  CASE st.op = "assign" ->
                    camel_eval(h \o <<Obj("str", "bob", CapabilitiesDefault, <<>>, <<>>)>>,
                               namespace \cup {n + 1}, calls, code, i + 1, content)
               [] st.op = "call" ->
                    camel_eval(h \o << Obj("str", "bob", CapabilitiesDefault, <<>>, <<>>),
                                       DictObj(CapabilitiesDefault, <<>>, <<0>>, <<n + 1>>),
                                       Obj("str", content, Capabilities({Tool(read_file, {})}, Readers({})),
                                           <<FnId(read_file), EmptyArgs, n + 2>>, <<>>) >>,
                               namespace \cup {n + 3},
                               Append(calls, [function |-> read_file,
                                              args |-> <<[name |-> "file_path", value |-> n + 1]>>,
                                              dependencies |-> <<>>]),
                               code, i + 1, content)
               [] st.op = "raise" /\ st.arg = "literal" ->
                    InterpreterResult(h \o <<CaMeLException("Error!", <<>>)>>,
                                      namespace, calls, n + 1, st.kind, i)
               [] st.op = "raise" /\ namespace \subseteq 1..EmptyArgs ->
                    InterpreterResult(h \o <<CaMeLException("name 'x' is not defined", <<>>)>>,
                                      namespace, calls, n + 1, "NameError", i)
               [] OTHER ->
                    InterpreterResult(h \o <<CaMeLException(h[LastBound(namespace)].raw,
                                                            <<LastBound(namespace)>>)>>,
                                      namespace, calls, n + 1, st.kind, i)

\* a variant of the interpreter that gives back the namespace it was given
\* when the run ends in Error
parse_and_interpret_code_discard(h, namespace, calls, code, content) ==
    LET r == camel_eval(h, namespace, calls, code, 1, content)
    IN  IF r.error = 0 THEN r ELSE [r EXCEPT !.namespace = namespace]

parse_and_interpret_code(h, namespace, calls, code, content) ==
    camel_eval(h, namespace, calls, code, 1, content)

Redacted ==
    "<The exception was redacted because it came from an untrusted source. Try to infer what the problem was from the context provided.>"

\* the line of the code that the node of the exception spans
_highlight_exception_code(code, lineno) ==
    IF lineno \in 1..Len(code) THEN [line |-> code[lineno], error |-> ""]
    ELSE [line |-> [op |-> "", kind |-> "", arg |-> ""], error |-> "Error: lineno is out of range"]

\* the traceback text, as the parts it is formatted from
Traceback(lineno, formatted_code, name, exception_text) ==
    [lineno |-> lineno, formatted_code |-> formatted_code, name |-> name,
     exception_text |-> exception_text]

NoTraceback == Traceback(0, _highlight_exception_code(<<>>, 0), "", "")

\* privileged_llm.format_camel_exception
format_camel_exception(h, r, code) ==
    Traceback(r.lineno, _highlight_exception_code(code, r.lineno), r.name,
              IF is_trusted(h, HeapRef(r.error)) = "True" THEN h[r.error].raw ELSE Redacted)

\* replay_privileged_llm.format_camel_exception
replay_format_camel_exception(h, r, code) ==
    Traceback(r.lineno, _highlight_exception_code(code, r.lineno), r.name, h[r.error].raw)

\* attempts = 5: how often one attempt asks the planner for code
PlannerAttempts == 5

\* a variant of the loop that asks until the planner gives code
PlannerLoop_unbounded(empties, left, asked) == [queries |-> empties + 1, empty |-> FALSE]

\* the while loop of _generate_and_interpret_code: the planner gives
\* `empties` empty replies before it gives code; left is what remains of
\* attempts and asked counts the calls of llm.query
RECURSIVE PlannerLoop(_, _, _)
PlannerLoop(empties, left, asked) ==
    IF left = 0 THEN [queries |-> asked, empty |-> TRUE]
    ELSE IF empties = 0 THEN [queries |-> asked + 1, empty |-> FALSE]
    ELSE PlannerLoop(empties - 1, left - 1, asked + 1)

\* the text of the user message of make_error_messages: the f-string puts a
\* newline before the traceback, which itself starts with a newline
ErrorText ==
    <<"Running the code gave the following error:", "\n", "\n", "Traceback", "(most recent call last):",
      "\n", "Provide the new code with the error fixed.">>

\* make_error_messages of attempt k
make_error_messages(k) ==
    <<Message("assistant", <<"code">>, k, 0), Message("user", ErrorText, k, 0)>>

\* the tool result messages of the calls logged by the run: from .. to
tool_call_messages(k, from, to) ==
    [i \in 1..(to - from) |-> Message("tool", <<"tool_result">>, k, from + i)]

\* what the planner has seen before this attempt
privileged_llm_messages ==
    IF attempts = <<>>
    THEN <<Message("system", <<"system_prompt">>, 0, 0), Message("user", <<"query">>, 0, 0)>>
    ELSE attempts[Len(attempts)].privileged_llm_messages

\* the loop of PrivilegedLLM.query or of replay_task has ended
LoopEnded ==
    \/ Len(attempts) = max_attempts
    \/ pipeline = "PrivilegedLLM" /\ attempts # <<>> /\ attempts[Len(attempts)].error = 0

\* One iteration of the loop of PrivilegedLLM.query, or one turn of
\* replay_task: the planner is asked for code (a replayed turn has its
\* code), the code is run in the namespace of the loop, the namespace that
\* comes back replaces it, and an error is formatted into the message for
\* the next attempt.  PrivilegedLLM stops after an attempt without error.
_generate_and_interpret_code(code, content, empties) ==
    LET k == Len(attempts) + 1
        planner == IF pipeline = "PrivilegedLLM" THEN PlannerLoop(empties, PlannerAttempts, 0)
                   ELSE [queries |-> 0, empty |-> FALSE]
        r == parse_and_interpret_code(heap, variables, tool_calls, code, content)
        results == tool_call_messages(k, Len(tool_calls), Len(r.tool_calls))
    IN  /\ pipeline \in {"PrivilegedLLM", "PrivilegedLLMReplayer"}
        /\ ~LoopEnded
        /\ pipeline = "PrivilegedLLMReplayer" => empties = 0
        /\ IF planner.empty
           THEN /\ UNCHANGED <<heap, variables, tool_calls>>
                /\ attempts' = Append(attempts,
                      [namespace |-> variables, code |-> <<>>, error |-> 0,
                       updated_namespace |-> variables, content |-> NoTraceback,
                       queries |-> planner.queries, ran |-> FALSE,
                       privileged_llm_messages |-> privileged_llm_messages])
                /\ messages' = Append(messages, Message("assistant", <<"The generated code was None.">>, k, 0))
           ELSE /\ heap' = r.heap
                /\ variables' = r.namespace
                /\ tool_calls' = r.tool_calls
                /\ attempts' = Append(attempts,
                      [namespace |-> variables, code |-> code, error |-> r.error,
                       updated_namespace |-> r.namespace,
                       content |-> IF r.error = 0 THEN NoTraceback
                                   ELSE IF pipeline = "PrivilegedLLM"
                                        THEN format_camel_exception(r.heap, r, code)
                                        ELSE replay_format_camel_exception(r.heap, r, code),
                       queries |-> planner.queries, ran |-> TRUE,
                       privileged_llm_messages |->
                           IF r.error = 0 THEN privileged_llm_messages
                           ELSE privileged_llm_messages \o make_error_messages(k)])
                /\ messages' = IF r.error # 0
                               THEN messages \o results \o make_error_messages(k)
                               ELSE messages \o <<Message("assistant", <<"code">>, k, 0)>> \o results
                                        \o <<Message("assistant", <<"output">>, k, 0)>>
        /\ UNCHANGED <<execution_trace, policies, no_side_effect_tools, pipeline, evaluated>>

\* a variant of the end of query that returns the messages as they are
query_as_is ==
    /\ pipeline \in {"PrivilegedLLM", "PrivilegedLLMReplayer"}
    /\ LoopEnded
    /\ pipeline' = "returned"
    /\ UNCHANGED <<execution_trace, heap, variables, policies, no_side_effect_tools, tool_calls, attempts, evaluated, messages>>

\* the end of PrivilegedLLM.query and of replay_task: a traceback that
\* would be the last message is followed by an assistant message without
\* content
query ==
    /\ pipeline \in {"PrivilegedLLM", "PrivilegedLLMReplayer"}
    /\ LoopEnded
    /\ messages' = IF /\ messages[Len(messages)].role = "user"
                      /\ Contains(messages[Len(messages)].content, <<"\n", "\n", "Traceback">>)
                   THEN Append(messages, Message("assistant", <<>>, 0, 0))
                   ELSE messages
    /\ pipeline' = "returned"
    /\ UNCHANGED <<execution_trace, heap, variables, policies, no_side_effect_tools, tool_calls, attempts, evaluated>>

\* how many empty replies the planner gives in a row
Replies == 0..(PlannerAttempts + 1)

InitPipeline ==
    /\ Init
    /\ policies = BankingSecurityPolicyEngine.policies
    /\ no_side_effect_tools = BankingSecurityPolicyEngine.no_side_effect_tools

\* a session of the live pipeline
NextPipeline ==
    \/ \E code \in Codes, content \in FileContents, empties \in Replies :
          _generate_and_interpret_code(code, content, empties)
    \/ query

SpecPipeline == InitPipeline /\ [][NextPipeline]_vars

\* a session of either pipeline: the live one or the replay of a trace
InitReplay ==
    /\ heap = [i \in 1..EmptyArgs |->
                 IF i = ClassId THEN Obj("class", "", CapabilitiesDefault, <<>>, <<>>)
                 ELSE IF i = EmptyArgs THEN Obj("tuple", "", CapabilitiesDefault, <<>>, <<>>)
                 ELSE Obj("callable", "", CapabilitiesCamel, <<>>, <<>>)]
    /\ variables = {ClassId}
    /\ policies = BankingSecurityPolicyEngine.policies
    /\ no_side_effect_tools = BankingSecurityPolicyEngine.no_side_effect_tools
    /\ tool_calls = <<>>
    /\ pipeline \in {"PrivilegedLLM", "PrivilegedLLMReplayer"}
    /\ attempts = <<>>
    /\ evaluated = <<>>
    /\ messages = <<Message("user", <<"query">>, 0, 0)>>
    /\ execution_trace = <<>>

SpecReplay == InitReplay /\ [][NextPipeline]_vars

(* ----------------------- claims: the pipeline -------------------------- *)
\* C11: a traceback rendered for the planner, by the live or by the replay
\* pipeline, shows the message of the exception only when the exception is
\* trusted; for an untrusted exception it shows the redaction placeholder.
C11_Redaction ==
    \A k \in 1..Len(attempts) :
        LET a == attempts[k]
        IN  a.error # 0 /\ is_trusted(heap, HeapRef(a.error)) # "True"
                => a.content.exception_text = Redacted

\* the line of the first raise statement of a code fragment
FailingLine(code) ==
    CHOOSE i \in 1..Len(code) : code[i].op = "raise" /\ \A j \in 1..(i - 1) : code[j].op # "raise"

\* C13: when a run ends in Error, the namespace that is returned holds the
\* input namespace and one binding for each statement executed before the
\* failing one (so it is the input namespace when the first statement
\* fails), and that returned namespace is the one the next attempt starts
\* from.
C13_NamespaceSurvivesError ==
    \A k \in 1..Len(attempts) :
        LET a == attempts[k]
        IN  a.error # 0 =>
               /\ a.namespace \subseteq a.updated_namespace
               /\ Cardinality(a.updated_namespace \ a.namespace) = FailingLine(a.code) - 1
               /\ FailingLine(a.code) = 1 => a.updated_namespace = a.namespace
               /\ k < Len(attempts) => attempts[k + 1].namespace = a.updated_namespace
               /\ k = Len(attempts) => variables = a.updated_namespace

\* a run failed at its second statement, after a binding, and another
\* attempt followed it
C13_Witness ==
    \E k \in 1..Len(attempts) :
        /\ attempts[k].error # 0
        /\ FailingLine(attempts[k].code) = 2
        /\ attempts[k].updated_namespace # attempts[k].namespace
        /\ k < Len(attempts)
        /\ attempts[k + 1].error # 0
        /\ FailingLine(attempts[k + 1].code) = 1

\* C27: PrivilegedLLM.query terminates.  It makes at most max_attempts
\* attempts; no attempt follows one that ended without an interpretation
\* error; one attempt asks the planner at least once and at most
\* PlannerAttempts times; and an attempt whose code is still empty runs no
\* code (namespace and tool calls are as before) and is the last one.
C27_QueryTerminates ==
    /\ Len(attempts) <= max_attempts
    /\ \A k \in 1..Len(attempts) :
          LET a == attempts[k]
          IN  /\ k < Len(attempts) => a.error # 0
              /\ a.queries \in 1..PlannerAttempts
              /\ a.ran <=> a.code # <<>>
              /\ ~a.ran => /\ a.queries = PlannerAttempts
                           /\ a.updated_namespace = a.namespace
                           /\ a.error = 0
                           /\ k = Len(attempts)
    /\ pipeline = "returned" =>
          \/ Len(attempts) = max_attempts
          \/ attempts # <<>> /\ attempts[Len(attempts)].error = 0

\* query has returned after a failed attempt and an attempt in which the
\* planner gave no code in five replies
C27_Witness ==
    /\ pipeline = "returned"
    /\ Len(attempts) = 2
    /\ attempts[1].error # 0
    /\ attempts[1].ran
    /\ ~attempts[2].ran
    /\ attempts[2].queries = PlannerAttempts

\* the positions of the messages of attempt k with one of the roles
Positions(k, roles) ==
    {i \in 1..Len(messages) : messages[i].attempt = k /\ messages[i].role \in roles}

\* the tool calls that ran in a failed attempt: the call statements before
\* the failing line
CallsBeforeFailure(code) ==
    Cardinality({i \in 1..(FailingLine(code) - 1) : code[i].op = "call"})

\* a step keeps every message and appends
MessagesGrow ==
    /\ Len(messages') >= Len(messages)
    /\ SubSeq(messages', 1, Len(messages)) = messages

\* what holds of the messages and of the planner's conversation in a state
MessagesKept ==
    /\ \A k \in 1..Len(attempts) :
          LET a == attempts[k]
              before == IF k = 1
                        THEN <<Message("system", <<"system_prompt">>, 0, 0), Message("user", <<"query">>, 0, 0)>>
                        ELSE attempts[k - 1].privileged_llm_messages
          IN  a.error # 0 =>
                /\ Cardinality(Positions(k, {"tool"})) = CallsBeforeFailure(a.code)
                /\ \A i \in Positions(k, {"tool"}) : tool_calls[messages[i].call].function = read_file
                /\ \A i \in Positions(k, {"tool"}), j \in Positions(k, {"assistant", "user"}) : i < j
                /\ \E j \in Positions(k, {"user"}) :
                      /\ Contains(messages[j].content, <<"\n", "\n", "Traceback">>)
                      /\ j > 1
                      /\ messages[j - 1] = Message("assistant", <<"code">>, k, 0)
                /\ a.privileged_llm_messages = before \o make_error_messages(k)
    /\ pipeline = "returned" =>
          LET last == messages[Len(messages)]
          IN  /\ ~(last.role = "user" /\ Contains(last.content, <<"\n", "\n", "Traceback">>))
              /\ attempts # <<>> /\ attempts[Len(attempts)].error # 0 =>
                    /\ last = Message("assistant", <<>>, 0, 0)
                    /\ messages[Len(messages) - 1] = Message("user", ErrorText, Len(attempts), 0)

\* C28: across the attempts of PrivilegedLLM.query the messages list only
\* grows; the tool-result messages of the calls that ran in a failed
\* attempt are in the list, before the error messages of that attempt; a
\* failed attempt appends the code and the error text to the planner's
\* conversation; and when query has returned the last message is not a
\* user message with a traceback: an assistant message without content
\* follows the traceback of a last attempt that failed.
C28_MessagesOnlyGrow == [](MessagesKept) /\ [][MessagesGrow]_vars

\* query has returned after two failed attempts, the first of which ran a
\* tool before it failed
C28_Witness ==
    /\ pipeline = "returned"
    /\ Len(attempts) = 2
    /\ attempts[1].error # 0
    /\ attempts[2].error # 0
    /\ Positions(1, {"tool"}) # {}
    /\ messages[Len(messages)].content = <<>>

(* ------------------------- replay of a trace -------------------------- *)
\* the attempts of a recorded trace
MaxTurns == 2

\* a message of a recorded trace: a tool result names its function; the
\* content is text, or the code of an assistant message, or <<>> for None
Recorded(role, content, function) == [role |-> role, content |-> content, function |-> function]

\* the statements of the code of a turn:
\*   "q"  x = query_ai_assistant(...)
\*   "r"  x = read_file(...)
\*   "d"  send_money(...), which the policies of the replay deny
TurnStatements == {"q", "r", "d"}

TurnCodes == {<<s>> : s \in TurnStatements} \cup {<<s, t>> : s \in TurnStatements, t \in TurnStatements}

\* what the quarantined model answered in the recorded run
QuarantinedOutputs == {"bob", "eve"}

\* the recorded run of a code, made without policies: every tool call ran
\* and left its result, except a query_ai_assistant call that raised
\* NotEnoughInformationError and ended the run
RECURSIVE LiveRuns(_, _, _)
LiveRuns(code, line, results) ==
    IF line > Len(code) THEN {[code |-> code, results |-> results, ok |-> TRUE]}
    ELSE CASE code[line] = "q" ->
                {[code |-> code, results |-> results, ok |-> FALSE]}
                \cup UNION {LiveRuns(code, line + 1,
                                     Append(results, Recorded("tool", <<c>>, query_ai_assistant))) :
                            c \in QuarantinedOutputs}
           [] code[line] = "r" ->
                LiveRuns(code, line + 1, Append(results, Recorded("tool", <<"bob">>, read_file)))
           [] OTHER ->
                LiveRuns(code, line + 1, Append(results, Recorded("tool", <<"sent">>, send_money)))

Blocks == UNION {LiveRuns(code, 1, <<>>) : code \in TurnCodes}

\* the messages PrivilegedLLM._generate_and_interpret_code leaves for a run
BlockMessages(b) ==
    IF b.ok
    THEN <<Recorded("assistant", b.code, <<>>)>> \o b.results \o <<Recorded("assistant", <<"output">>, <<>>)>>
    ELSE b.results \o <<Recorded("assistant", b.code, <<>>), Recorded("user", ErrorText, <<>>)>>

\* the messages of n failed attempts
RECURSIVE Failed(_)
Failed(n) ==
    IF n = 0 THEN {<<>>}
    ELSE {p \o BlockMessages(a) : p \in Failed(n - 1), a \in {x \in Blocks : ~x.ok}}

\* the traces query can leave: the query message, failed attempts, and a
\* last attempt; after a last attempt that failed, the assistant message
\* without content
Traces ==
    LET first == <<Recorded("user", <<"query">>, <<>>)>>
        closed(b) == IF b.ok THEN BlockMessages(b)
                     ELSE BlockMessages(b) \o <<Recorded("assistant", <<>>, <<>>)>>
    IN  {first \o failed \o closed(b) : failed \in UNION {Failed(n) : n \in 0..(MaxTurns - 1)}, b \in Blocks}

\* replay_task: the messages after the query message, without a trailing
\* assistant message that has no content
relevant_messages(trace) ==
    LET rest == SubSeq(trace, 2, Len(trace))
    IN  IF rest[Len(rest)].role = "assistant" /\ rest[Len(rest)].content = <<>>
        THEN SubSeq(rest, 1, Len(rest) - 1)
        ELSE rest

\* the loop of make_turns: a message joins the latest list, and a user
\* message opens a new list
RECURSIVE turns_lists(_, _, _)
turns_lists(msgs, i, lists) ==
    IF i > Len(msgs) THEN lists
    ELSE LET joined == [lists EXCEPT ![Len(lists)] = Append(@, msgs[i])]
         IN  turns_lists(msgs, i + 1, IF msgs[i].role = "user" THEN Append(joined, <<>>) ELSE joined)

\* Turn.from_list: the code is the content of the first assistant message;
\* without an assistant message next() raises StopIteration
HasCode(turn_list) == \E i \in 1..Len(turn_list) : turn_list[i].role = "assistant"

from_list(turn_list) ==
    LET first == CHOOSE i \in 1..Len(turn_list) :
                    /\ turn_list[i].role = "assistant"
                    /\ \A j \in 1..(i - 1) : turn_list[j].role # "assistant"
    IN  [code |-> turn_list[first].content,
         tool_results |-> SelectSeq(turn_list, LAMBDA m : m.role = "tool")]

\* make_turns: a last list that ends with an assistant message without
\* content is dropped; list(map(Turn.from_list, ...)) ends at the first
\* list for which from_list raises StopIteration
make_turns(msgs) ==
    LET lists == turns_lists(msgs, 1, <<<<>>>>)
        last == lists[Len(lists)]
        kept == IF /\ last # <<>>
                   /\ last[Len(last)].role = "assistant"
                   /\ last[Len(last)].content = <<>>
                THEN SubSeq(lists, 1, Len(lists) - 1)
                ELSE lists
        n == CHOOSE n \in 0..Len(kept) :
                /\ \A i \in 1..n : HasCode(kept[i])
                /\ n < Len(kept) => ~HasCode(kept[n + 1])
    IN  [i \in 1..n |-> from_list(kept[i])]

\* a variant that replays every tool result of the turn
_make_quarantined_llm_fn_all(tool_results) == tool_results

\* _make_quarantined_llm_fn: the recorded results of query_ai_assistant
_make_quarantined_llm_fn(tool_results) ==
    SelectSeq(tool_results, LAMBDA m : m.function = query_ai_assistant)

\* the run of the code of a turn: i is the counter of the closure of
\* query_ai_assistant; a denied call ends the run, with the error raised
\* out of the interpreter or returned by it
RECURSIVE ReplayRun(_, _, _, _, _, _)
ReplayRun(code, line, calls, i, answers, raises) ==
    IF line > Len(code) THEN [error |-> "", raised |-> FALSE, answers |-> answers, ran |-> line - 1]
    ELSE CASE code[line] = "q" ->
                IF i >= Len(calls)
                THEN [error |-> "NotEnoughInformationError", raised |-> FALSE,
                      answers |-> answers, ran |-> line - 1]
                ELSE ReplayRun(code, line + 1, calls, i + 1, Append(answers, calls[i + 1]), raises)
           [] code[line] = "r" -> ReplayRun(code, line + 1, calls, i, answers, raises)
           [] OTHER -> [error |-> "SecurityPolicyDeniedError", raised |-> raises,
                        answers |-> answers, ran |-> line - 1]

\* one iteration of `for turn in turns` of replay_task
replay_turn(raises) ==
    LET turns == make_turns(relevant_messages(execution_trace))
        k == Len(attempts) + 1
        run(turn) == ReplayRun(turn.code, 1, _make_quarantined_llm_fn(turn.tool_results), 0, <<>>, raises)
        step(turn, r) ==
            /\ attempts' = Append(attempts, [turn |-> k, code |-> turn.code, answers |-> r.answers,
                                             error |-> r.error, raised |-> r.raised])
            /\ messages' =
                 IF r.raised
                 THEN messages \o <<Message("user", <<"SecurityPolicyDeniedError">>, k, 0),
                                    Message("assistant", <<"output">>, k, 0)>>
                 ELSE IF r.error = ""
                 THEN messages \o <<Message("assistant", <<"code">>, k, 0)>>
                          \o [c \in 1..r.ran |-> Message("tool", <<"tool_result">>, k, c)]
                          \o <<Message("assistant", <<"output">>, k, 0)>>
                 ELSE messages \o [c \in 1..r.ran |-> Message("tool", <<"tool_result">>, k, c)]
                          \o make_error_messages(k)
            /\ pipeline' = IF r.raised THEN "returned" ELSE pipeline
    IN  /\ pipeline = "PrivilegedLLMReplayer"
        /\ k <= Len(turns)
        /\ step(turns[k], run(turns[k]))
        /\ UNCHANGED <<execution_trace, heap, variables, policies, no_side_effect_tools, tool_calls, evaluated>>

\* the end of replay_task, after the last turn
replay_task ==
    /\ pipeline = "PrivilegedLLMReplayer"
    /\ Len(attempts) = Len(make_turns(relevant_messages(execution_trace)))
    /\ messages' = IF /\ messages[Len(messages)].role = "user"
                      /\ Contains(messages[Len(messages)].content, <<"\n", "\n", "Traceback">>)
                   THEN Append(messages, Message("assistant", <<>>, 0, 0))
                   ELSE messages
    /\ pipeline' = "returned"
    /\ UNCHANGED <<execution_trace, heap, variables, policies, no_side_effect_tools, tool_calls, attempts, evaluated>>

InitTurns ==
    /\ execution_trace \in Traces
    /\ heap = [i \in 1..EmptyArgs |->
                 IF i = ClassId THEN Obj("class", "", CapabilitiesDefault, <<>>, <<>>)
                 ELSE IF i = EmptyArgs THEN Obj("tuple", "", CapabilitiesDefault, <<>>, <<>>)
                 ELSE Obj("callable", "", CapabilitiesCamel, <<>>, <<>>)]
    /\ variables = {ClassId}
    /\ policies = BankingSecurityPolicyEngine.policies
    /\ no_side_effect_tools = BankingSecurityPolicyEngine.no_side_effect_tools
    /\ tool_calls = <<>>
    /\ pipeline = "PrivilegedLLMReplayer"
    /\ attempts = <<>>
    /\ evaluated = <<>>
    /\ messages = <<>>

NextTurns ==
    \/ \E raises \in BOOLEAN : replay_turn(raises)
    \/ replay_task

SpecTurns == InitTurns /\ [][NextTurns]_vars

\* the recorded query_ai_assistant results of turn k of the trace
RecordedAnswers(k) ==
    SelectSeq(make_turns(relevant_messages(execution_trace))[k].tool_results,
              LAMBDA m : m.function = query_ai_assistant)

\* the calls of query_ai_assistant in the code of a turn
Queries(code) == Cardinality({i \in 1..Len(code) : code[i] = "q"})

\* C29: in replay, within one turn the k-th call of query_ai_assistant
\* returns the k-th recorded query_ai_assistant result of that turn, in
\* recorded order, in every turn from the first recorded result on; a call
\* beyond the recorded ones raises NotEnoughInformationError; and replay
\* stops at the first turn whose run raises SecurityPolicyDeniedError: no
\* later turn runs.
C29_ReplayedAnswers ==
    \A k \in 1..Len(attempts) :
        LET a == attempts[k]
        IN  /\ a.turn = k
            /\ Len(a.answers) <= Len(RecordedAnswers(k))
            /\ \A j \in 1..Len(a.answers) : a.answers[j] = RecordedAnswers(k)[j]
            /\ a.error = "NotEnoughInformationError" <=>
                  /\ Len(a.answers) = Len(RecordedAnswers(k))
                  /\ Queries(a.code) > Len(RecordedAnswers(k))
                  /\ \A i \in 1..Len(a.code) :
                        a.code[i] = "d" => Queries(SubSeq(a.code, 1, i)) > Len(RecordedAnswers(k))
            /\ a.error = "" => Len(a.answers) = Queries(a.code)
            /\ a.raised => k = Len(attempts) /\ pipeline = "returned"

\* in the first turn the second call went beyond the one recorded result;
\* the second turn got its own first recorded result and then raised
\* SecurityPolicyDeniedError
C29_Witness ==
    /\ Len(attempts) = 2
    /\ attempts[1].error = "NotEnoughInformationError"
    /\ Len(attempts[1].answers) = 1
    /\ Len(attempts[2].answers) = 1
    /\ attempts[2].answers[1] # attempts[1].answers[1]
    /\ attempts[2].raised

(* ------------------------------- calls -------------------------------- *)
\* value.raw: a scalar's payload, and for a container a fresh Python
\* container of the raws of its elements (keys and values for a dict)
RECURSIVE Raw(_, _)
Raw(h, n) ==
    IF n <= 0 THEN ""
    ELSE IF h[n].kind \in Containers
    THEN [kind |-> h[n].kind,
          keys |-> [i \in 1..Len(h[n].keys) |-> Raw(h, h[n].keys[i])],
          items |-> [i \in 1..Len(h[n].elems) |-> Raw(h, h[n].elems[i])]]
    ELSE h[n].raw

\* what the raw arguments look like after a Python callable appended an
\* element to the first of them
Mutated(raw_args) ==
    [raw_args EXCEPT ![1].items = Append(@, "appended")]

\* the callables of the namespace: a built-in function, the class and the
\* read_file tool
len == EmptyArgs + Len(TravelTools) + 1

Callables == {len, ClassId, FnId(read_file)}

\* CaMeLCallable.call for a built-in function, CaMeLClass.call for a class
\* and AgentDojoFunction.call for a tool, on the call fn(arg).  mutates says
\* whether the Python callable appends to the raw list it is handed.  Only
\* CaMeLCallable.call converts the arguments again after the callable has
\* run and compares the two conversions.
call(fn, arg, mutates) ==
    LET n == Len(heap)
        args == Obj("tuple", "", CapabilitiesDefault, <<>>, <<arg>>)
        kwargs == DictObj(CapabilitiesDefault, <<>>, <<>>, <<>>)
        h == heap \o <<args, kwargs>>
        raw_args == Raw(h, n + 1).items
        received == IF mutates THEN Mutated(raw_args) ELSE raw_args
        raised == heap[fn].kind = "builtin" /\ Raw(h, n + 1).items # received
        output ==
            CASE heap[fn].kind = "builtin" ->
                     Obj("int", "1", Capabilities({Tool(<<"l", "e", "n">>, {})}, Public), <<fn, n + 1, n + 2>>, <<>>)
              [] heap[fn].kind = "class" ->
                     Obj("instance", "", Capabilities(heap[fn].sources, heap[fn].readers), <<fn>>, <<0>>)
              [] OTHER ->
                     [(CHOOSE o \in ToolReturns(read_file) : TRUE) EXCEPT !.deps = <<fn, n + 1, n + 2>>]
        entry == [Evaluation("call", <<fn, arg>>, IF raised THEN 0 ELSE n + 3,
                             IF raised THEN "FunctionCallWithSideEffectError" ELSE "")
                    EXCEPT !.mutated = mutates, !.raws = <<Raw(heap, arg), Raw(h, arg)>>]
    IN  /\ Len(evaluated) < MaxEvaluated
        /\ mutates => heap[arg].kind = "list"
        /\ fn = FnId(read_file) =>
              call_allowed(heap, policies, no_side_effect_tools, read_file,
                           <<[name |-> "file_path", value |-> arg]>>, <<>>)
        /\ heap' = IF raised THEN h ELSE h \o <<output>>
        /\ variables' = IF raised THEN variables ELSE variables \cup {n + 3}
        /\ tool_calls' = IF fn = FnId(read_file)
                         THEN Append(tool_calls, [function |-> read_file,
                                                  args |-> <<[name |-> "file_path", value |-> arg]>>,
                                                  dependencies |-> <<>>])
                         ELSE tool_calls
        /\ evaluated' = Append(evaluated, entry)
        /\ UNCHANGED <<execution_trace, policies, no_side_effect_tools, pipeline, attempts, messages>>

\* a display of the given kind over elements: [..], (..), {..} or {k: number}
Display(kind, elems, number) ==
    IF kind = "dict"
    THEN DictObj(CapabilitiesDefault, <<>>, elems, [i \in 1..Len(elems) |-> number])
    ELSE Obj(kind, "", CapabilitiesDefault, <<>>, elems)

\* the element lists of a display: set elements and dict keys are distinct
DisplayElems(kind, candidates, max) ==
    {e \in {<<>>} \cup {<<a>> : a \in candidates} \cup {<<a, b>> : a \in candidates, b \in candidates} :
        /\ Len(e) <= max
        /\ kind = "set" => Len(e) <= 1
        /\ kind = "dict" /\ Len(e) = 2 => e[1] # e[2]}

OpsContents == {"bob", "eve"}

OpsEngines == {BankingSecurityPolicyEngine, TravelSecurityPolicyEngine, WorkspaceSecurityPolicyEngine}

\* The state in which an expression is evaluated, as the statements
\*     path = "bob"; secret = read_file(path); number = 1 (or 1.0)
\*     first = <display>; second = <display>
\*     instance = AClass(1) (and then instance.f = path)
\* leave it under the banking, travel or workspace engine: the namespace holds a
\* string literal, the output of read_file, a number literal, two displays
\* of one kind over these values and a class instance.
InitOps ==
    \E content \in OpsContents, number \in {"int", "float"}, kind \in Containers, engine \in OpsEngines,
       field \in {0, len + 1} :
      LET n == len - 1
          scalars == {n + 2, n + 4, n + 5}
      IN \E first \in DisplayElems(kind, scalars, 2), second \in DisplayElems(kind, {n + 2}, 1) :
          /\ heap = [i \in 1..EmptyArgs |->
                       IF i = ClassId THEN Obj("class", "", CapabilitiesDefault, <<>>, <<>>)
                       ELSE IF i = EmptyArgs THEN Obj("tuple", "", CapabilitiesDefault, <<>>, <<>>)
                       ELSE Obj("callable", "", CapabilitiesCamel, <<>>, <<>>)]
                    \o [i \in 1..Len(TravelTools) |-> Obj("callable", "", CapabilitiesCamel, <<>>, <<>>)]
                    \o << Obj("builtin", "", CapabilitiesCamel, <<>>, <<>>),
                          Obj("str", "bob", CapabilitiesDefault, <<>>, <<>>),
                          DictObj(CapabilitiesDefault, <<>>, <<0>>, <<n + 2>>),
                          Obj("str", content, Capabilities({Tool(read_file, {})}, Readers({})),
                              <<FnId(read_file), EmptyArgs, n + 3>>, <<>>),
                          Obj(number, NumRaw(number, 2), CapabilitiesDefault, <<>>, <<>>),
                          Display(kind, first, n + 5),
                          Display(kind, second, n + 5),
                          Obj("instance", "", CapabilitiesDefault, <<ClassId>>, <<field>>) >>
          /\ variables = {ClassId, n + 2, n + 4, n + 5, n + 6, n + 7, n + 8}
          /\ policies = engine.policies
          /\ no_side_effect_tools = engine.no_side_effect_tools
          /\ tool_calls = <<[function |-> read_file, args |-> <<[name |-> "file_path", value |-> n + 2]>>,
                             dependencies |-> <<>>]>>
          /\ pipeline = "PrivilegedLLM"
          /\ attempts = <<>>
          /\ evaluated = <<>>
          /\ messages = <<Message("user", <<"query">>, 0, 0)>>
          /\ execution_trace = <<>>

\* the keyword arguments of send_email(recipients=[..], subject=b, body=b)
EmailKwargs == {Kwargs(send_email, p, q) : p \in {v \in Values : heap[v].kind = "list"}, q \in Values}

NextOps ==
    \/ \E self \in Values : unary(self)
    \/ \E self \in Values, other \in Values : add(self, other)
    \/ \E self \in Values, value \in Values : eq(self, value)
    \/ \E self \in Values, other \in Values : contains(self, other)
    \/ \E self \in Values, i \in Values : index(self, i)
    \/ \E self \in Values : attr(self)
    \/ \E fn \in Callables, arg \in Values, mutates \in BOOLEAN : call(fn, arg, mutates)

\* the evaluation of one expression in that state
SpecOps == InitOps /\ [][NextOps]_vars

NextTravel ==
    \/ \E kwargs \in EmailKwargs : EvalCall(send_email, kwargs, <<>>)
    \/ \E kwargs \in KwargsSet(get_rating_reviews_for_hotels) :
          EvalCall(get_rating_reviews_for_hotels, kwargs, <<>>)
    \/ \E kwargs \in KwargsSet(create_calendar_event) : EvalCall(create_calendar_event, kwargs, <<>>)
    \/ \E kwargs \in KwargsSet(delete_email) : EvalCall(delete_email, kwargs, <<>>)

\* calls of the travel tools in that state
SpecTravel == InitOps /\ [][NextTravel]_vars

(* ----------------------- claims: expressions -------------------------- *)
\* C12: no hidden mutation.  For every call evaluated, whether of a
\* built-in function, a class or a tool: if the Python callable mutated a
\* raw argument it received, the call raised FunctionCallWithSideEffectError
\* and produced no value; and if the call produced a value, the raw of its
\* argument is what it was before the call.
C12_NoHiddenMutation ==
    \A k \in 1..Len(evaluated) :
        LET e == evaluated[k]
        IN  e.op = "call" =>
              /\ e.mutated => e.error = "FunctionCallWithSideEffectError" /\ e.result = 0
              /\ e.result # 0 => e.raws[1] = e.raws[2]

\* C14: for send_email(recipients=[x], subject=b, body=b) under the travel
\* engine, whatever b is: a call whose x is untrusted is denied, so it is
\* never run or logged; and the check returns Allowed for every such call
\* whose x is trusted.
C14_SendEmail ==
    /\ \A k \in 1..Len(tool_calls) :
          LET c == tool_calls[k]
          IN  c.function = send_email =>
                \A i \in 1..Len(heap[Get(c.args, "recipients")].elems) :
                    is_trusted(heap, HeapRef(heap[Get(c.args, "recipients")].elems[i])) = "True"
    /\ policies = TravelSecurityPolicyEngine.policies =>
          \A kwargs \in EmailKwargs :
              LET elems == heap[Get(kwargs, "recipients")].elems
              IN  Len(elems) = 1 /\ is_trusted(heap, HeapRef(elems[1])) = "True"
                    => Check(send_email, kwargs, <<>>).result = "Allowed"

\* tools whose output is untrusted free text: file contents and reviews
UntrustedTools == {read_file, get_rating_reviews_for_hotels}

\* C15: a value returned by a review tool or by a tool that returns file
\* contents is never trusted, and the Tool source it is labelled with does
\* not include TrustedToolSource.
C15_UntrustedToolOutputs ==
    \A v \in Values :
        \A s \in heap[v].sources :
            s.kind = "tool" /\ s.name \in UntrustedTools =>
                /\ is_trusted(heap, HeapRef(v)) = "False"
                /\ "TrustedToolSource" \notin s.inner

Metadata(v) == Capabilities(heap[v].sources, heap[v].readers)

Operators == {"unary", "add", "eq", "contains"}

Deps(v) == {r.base : r \in Closure(DirectDeps(HeapRef(v)), RecursionLimit)}

\* the operations that derive a value from their operands
Derivations == {"unary", "add", "index", "attr"}

\* C17 (dependency monotonicity): the value an operator, an index or an
\* attribute read produces from v depends on everything v depends on, and
\* the operation leaves the _dependencies of v as they were.
C17_DependencyMonotonicity ==
    \A k \in 1..Len(evaluated) :
        LET e == evaluated[k]
        IN  e.op \in Derivations /\ e.result # 0 =>
              \A i \in 1..Len(e.operands) :
                  /\ Deps(e.operands[i]) \subseteq Deps(e.result)
                  /\ heap[e.operands[i]].deps = e.before[i]

\* the elements a containment test looks at: the keys of a dict, the
\* characters of a string (one character, labelled as the string is), the
\* elements of a list, tuple or set
Elements(c) ==
    IF heap[c].kind = "dict" THEN {heap[c].keys[i] : i \in 1..Len(heap[c].keys)}
    ELSE IF heap[c].kind = "str" THEN {c}
    ELSE {heap[c].elems[i] : i \in 1..Len(heap[c].elems)}

DependencySet(v) == {heap[v].deps[i] : i \in 1..Len(heap[v].deps)}

\* C18 (containment, negative answer): when x in c is False, the Bool
\* depends on x and on every element of c, so it is untrusted when an
\* element of c is untrusted and not public when an element is not public.
C18_ContainsFalse ==
    \A k \in 1..Len(evaluated) :
        LET e == evaluated[k]
            c == e.operands[1]
            x == e.operands[2]
        IN  e.op = "contains" /\ e.result # 0 /\ heap[e.result].raw = "False" =>
              /\ {x} \cup Elements(c) \subseteq DependencySet(e.result)
              /\ \A el \in Elements(c) :
                    /\ is_trusted(heap, HeapRef(el)) = "False" => is_trusted(heap, HeapRef(e.result)) = "False"
                    /\ is_public(heap, HeapRef(el)) = "False" => is_public(heap, HeapRef(e.result)) = "False"

\* the kinds of container a containment test is evaluated on
Searched == Containers \cup {"str"}

\* C19 (containment, positive answer): when x in c is True, the Bool's
\* dependencies are the container c, the searched value x and an element
\* of c equal to x (the matched key for a dict, the matched character for a
\* string), for every kind of container.
C19_ContainsTrue ==
    \A k \in 1..Len(evaluated) :
        LET e == evaluated[k]
            c == e.operands[1]
            x == e.operands[2]
        IN  /\ e.op = "contains" /\ e.result # 0 /\ heap[e.result].raw = "True"
            /\ heap[c].kind \in Searched
            => \E m \in Elements(c) :
                  /\ camel_eq(heap, m, x)
                  /\ DependencySet(e.result) = {c, x, m}

\* Python's == on the raw payloads of two values: numbers by value, strings
\* by their text, lists and tuples by type, length and elements in order,
\* sets and dicts by type and by their elements (items) in any order
RECURSIVE raw_eq(_, _)
raw_eq(lhs, rhs) ==
    IF lhs <= 0 \/ rhs <= 0 THEN lhs = rhs
    ELSE LET a == heap[lhs]
             b == heap[rhs]
             within(v, w) ==
                 \A i \in 1..Len(v.elems) : \E j \in 1..Len(w.elems) :
                     IF v.kind = "dict"
                     THEN raw_eq(v.keys[i], w.keys[j]) /\ raw_eq(v.elems[i], w.elems[j])
                     ELSE raw_eq(v.elems[i], w.elems[j])
         IN  CASE a.kind \in {"list", "tuple"} ->
                    /\ b.kind = a.kind
                    /\ Len(a.elems) = Len(b.elems)
                    /\ \A i \in 1..Len(a.elems) : raw_eq(a.elems[i], b.elems[i])
               [] a.kind \in {"set", "dict"} ->
                    b.kind = a.kind /\ within(a, b) /\ within(b, a)
               [] a.kind = "str" -> b.kind = "str" /\ a.raw = b.raw
               [] a.kind \in Numbers ->
                    b.kind \in Numbers /\ Halves(a.kind, a.raw) = Halves(b.kind, b.raw)
               [] OTHER -> lhs = rhs

\* the kinds of value an equality test is evaluated on
Compared == Containers \cup Numbers \cup {"str", "instance"}

\* C20: lhs == rhs is True exactly when the raw payloads of lhs and rhs are
\* equal (so never for two sequences of different length or two dicts with
\* different numbers of keys), and the Bool's dependencies are (lhs, rhs).
C20_Eq ==
    \A k \in 1..Len(evaluated) :
        LET e == evaluated[k]
        IN  e.op = "eq" /\ e.result # 0 /\ heap[e.operands[1]].kind \in Compared =>
              /\ (heap[e.result].raw = "True") = raw_eq(e.operands[1], e.operands[2])
              /\ heap[e.result].deps = e.operands


\* C22: every policy function an engine registers returns Allowed or Denied
\* for every call of its tool; it never raises in place of a decision.
C22_PoliciesDecide ==
    \A i \in 1..Len(policies) :
        Params(policies[i][1]) # <<>> =>
            \A kwargs \in KwargsSet(policies[i][1]) :
                CallPolicy(heap, policies[i][2], policies[i][1], kwargs).result \in {"Allowed", "Denied"}


\* C24: under the workspace engine delete_email is allowed only when
\* email_id comes directly from the user: the decision is Allowed when
\* is_trusted(email_id) and Denied when email_id is untrusted, and every
\* delete_email call that ran had a trusted email_id.
C24_DeleteEmail ==
    policies = WorkspaceSecurityPolicyEngine.policies =>
        /\ \A kwargs \in KwargsSet(delete_email) :
              check_policy(heap, policies, no_side_effect_tools, delete_email, kwargs, <<>>).result
                  = IF is_trusted(heap, HeapRef(kwargs[1].value)) = "True" THEN "Allowed" ELSE "Denied"
        /\ \A k \in 1..Len(tool_calls) :
              tool_calls[k].function = delete_email =>
                  is_trusted(heap, HeapRef(tool_calls[k].args[1].value)) = "True"


\* C25: a container that directly holds an element whose own sources
\* include an untrusted one is not trusted, also when neither has a
\* dependency.
C25_ContainerTrust ==
    \A c \in Values :
        /\ heap[c].kind \in Containers
        /\ \E e \in Elements(c) : \E source \in heap[e].sources : ~_source_is_trusted(source)
        => is_trusted(heap, HeapRef(c)) = "False"


\* the arguments of the call that returned v: the elements of its
\* positional tuple and the values of its keyword dict
Arguments(v) ==
    {heap[heap[v].deps[2]].elems[i] : i \in 1..Len(heap[heap[v].deps[2]].elems)}
        \cup {heap[heap[v].deps[3]].elems[i] : i \in 1..Len(heap[heap[v].deps[3]].elems)}

\* C26: the value a built-in function or a tool returned from a call with
\* an argument that is not public, passed positionally or by keyword, is
\* not public.
C26_ConfidentialCalls ==
    \A v \in Values :
        /\ Len(heap[v].deps) = 3
        /\ heap[heap[v].deps[1]].kind \in {"builtin", "callable"}
        => \A a \in Arguments(v) :
               is_public(heap, HeapRef(a)) = "False" => is_public(heap, HeapRef(v)) = "False"


(* ------------------------ claims: frozen instances -------------------- *)
\* A namespace with a string literal, the output of read_file, and what
\* value_from_raw made of two output objects of get_file_by_id: a
\* CaMeLValueAsWrapper for the one whose attributes refer back to it, and
\* a CaMeLClassInstance with two converted attributes.
InitFreeze ==
    \E a \in 1..2 :
      /\ heap = [i \in 1..EmptyArgs |->
                   IF i = ClassId THEN Obj("class", "", CapabilitiesDefault, <<>>, <<>>)
                   ELSE IF i = EmptyArgs THEN Obj("tuple", "", CapabilitiesDefault, <<>>, <<>>)
                   ELSE Obj("callable", "", CapabilitiesCamel, <<>>, <<>>)]
                \o << Obj("str", "bob", CapabilitiesDefault, <<>>, <<>>),
                      Obj("str", "eve", Capabilities({Tool(read_file, {})}, Readers({})),
                          <<FnId(read_file), EmptyArgs>>, <<>>),
                      Obj("wrapper", "", Capabilities({Tool(get_file_by_id, {})}, Public),
                          <<FnId(get_file_by_id), EmptyArgs>>, <<EmptyArgs + a>>),
                      Obj("instance", "", Capabilities({Tool(get_file_by_id, {})}, Public),
                          <<FnId(get_file_by_id), EmptyArgs>>, <<0 - 1, 0 - 1>>) >>
      /\ variables = {ClassId, EmptyArgs + 1, EmptyArgs + 2, EmptyArgs + 3, EmptyArgs + 4}
      /\ policies = <<>>
      /\ no_side_effect_tools = NO_SIDE_EFFECT_TOOLS
      /\ tool_calls = <<>>
      /\ pipeline = "PrivilegedLLM"
      /\ attempts = <<>>
      /\ evaluated = <<>>
      /\ messages = <<Message("user", <<"query">>, 0, 0)>>
      /\ execution_trace = <<>>

NextFreeze ==
    \/ init
    \/ \E self \in Values, value \in Values : set_field(self, value)
    \/ \E self \in Values : freeze(self)

\* instances are built, assigned to and frozen
SpecFreeze == InitFreeze /\ [][NextFreeze]_vars

\* C21: once freeze() was called on a class instance, its attributes stay
\* as they were at freeze time (every later set_field raises and changes
\* nothing).
C21_FrozenForever ==
    \A k \in 1..Len(evaluated) :
        evaluated[k].op = "freeze" => heap[evaluated[k].operands[1]].elems = evaluated[k].raws


(* --------------------------- claims: determinism ---------------------- *)
Reverse(s) == [i \in 1..Len(s) |-> s[Len(s) + 1 - i]]

\* attr_names() is a set of strings, and the loop of
\* CaMeLClassInstance.get_dependencies iterates it in the order the hash
\* seed of the process gives: the heaps of two runs of one program differ
\* in the order in which the attributes of an instance are enumerated.
AttrOrders(h) ==
    {h, [n \in DOMAIN h |-> IF h[n].kind = "instance" THEN [h[n] EXCEPT !.elems = Reverse(@)] ELSE h[n]]}

\* C23: the dependency tuple get_dependencies computes for a value is the
\* same in two runs with identical inputs, also for class instances, whose
\* attributes are enumerated.
C23_Determinism ==
    \A v \in Values, h2 \in AttrOrders(heap) :
        Bases(get_dependencies(heap, HeapRef(v), {}, RecursionLimit))
            = Bases(get_dependencies(h2, HeapRef(v), {}, RecursionLimit))

(* ------------------------- claims: dict keys -------------------------- *)
\* the first key of the dict that answers True to el.eq(key); 0 when none
dict_key(h, self, key) ==
    LET matches == {i \in 1..Len(h[self].keys) : camel_eq(h, h[self].keys[i], key)}
    IN  IF matches = {} THEN 0 ELSE CHOOSE i \in matches : \A j \in matches : i <= j

\* CaMeLMapping.get: the value under the first key equal to key, with
\* (self, key) appended to its dependencies; KeyError without such a key
mapping_get(h, self, key) ==
    LET i == dict_key(h, self, key)
    IN  IF i = 0 THEN [error |-> "KeyError", result |-> <<>>]
        ELSE [error |-> "", result |-> <<new_with_dependencies(h[h[self].elems[i]], <<self, key>>)>>]

\* CaMeLMapping.get, as the expression self[key]
get(self, key) ==
    /\ heap[self].kind = "dict"
    /\ Evaluate("get", <<self, key>>, mapping_get(heap, self, key).result, mapping_get(heap, self, key).error)

\* s without its i-th element
Without(s, i) == SubSeq(s, 1, i - 1) \o SubSeq(s, i + 1, Len(s))

\* CaMeLMutableMapping.set_key, as the statement self[key] = value: a key
\* that is new is added; under the very key object the value is replaced;
\* a key equal to another object is deleted and a copy of it that depends
\* on key is inserted with the value.  The log entry keeps the keys and the
\* values the dict had before.
set_key(self, key, value) ==
    LET d == heap[self]
        i == dict_key(heap, self, key)
        n == Len(heap)
    IN  /\ d.kind = "dict"
        /\ Len(evaluated) < MaxEvaluated
        /\ heap' =
             IF i = 0
             THEN [heap EXCEPT ![self].keys = Append(@, key), ![self].elems = Append(@, value)]
                      \o <<Obj("None", "", CapabilitiesCamel, <<self>>, <<>>)>>
             ELSE IF d.keys[i] = key
             THEN [heap EXCEPT ![self].elems[i] = value]
                      \o <<Obj("None", "", CapabilitiesCamel, <<self>>, <<>>)>>
             ELSE [heap EXCEPT ![self].keys = Append(Without(@, i), n + 2),
                               ![self].elems = Append(Without(@, i), value)]
                      \o <<Obj("None", "", CapabilitiesCamel, <<self>>, <<>>),
                           new_with_dependencies(heap[d.keys[i]], <<key>>)>>
        /\ evaluated' = Append(evaluated, [Evaluation("set_key", <<self, key, value>>, n + 1, "")
                                             EXCEPT !.raws = <<d.keys, d.elems>>])
        /\ UNCHANGED <<execution_trace, variables, policies, no_side_effect_tools, tool_calls, pipeline, attempts, messages>>

\* the kinds of value used as a key
KeyKinds == {"str", "int", "tuple"}

\* The state the statements
\*     a = "bob"; b = read_file(a); c = "eve"; s = (a,); t = (a, c); n = 1
\*     d = <dict display>
\* leave: the display has up to two keys with different payloads among a,
\* c, s and t, the first with the value n and the second with the value c.
InitDict ==
    LET m == EmptyArgs
        candidates == {m + 1, m + 3, m + 4, m + 5}
    IN \E keys \in {<<>>} \cup {<<x>> : x \in candidates}
                         \cup {p \in candidates \X candidates : p[1] # p[2]} :
          /\ heap = [i \in 1..EmptyArgs |->
                       IF i = ClassId THEN Obj("class", "", CapabilitiesDefault, <<>>, <<>>)
                       ELSE IF i = EmptyArgs THEN Obj("tuple", "", CapabilitiesDefault, <<>>, <<>>)
                       ELSE Obj("callable", "", CapabilitiesCamel, <<>>, <<>>)]
                    \o << Obj("str", "bob", CapabilitiesDefault, <<>>, <<>>),
                          Obj("str", "bob", Capabilities({Tool(read_file, {})}, Readers({})),
                              <<FnId(read_file), EmptyArgs>>, <<>>),
                          Obj("str", "eve", CapabilitiesDefault, <<>>, <<>>),
                          Obj("tuple", "", CapabilitiesDefault, <<>>, <<m + 1>>),
                          Obj("tuple", "", CapabilitiesDefault, <<>>, <<m + 1, m + 3>>),
                          Obj("int", "1", CapabilitiesDefault, <<>>, <<>>),
                          DictObj(CapabilitiesDefault, <<>>, keys,
                                  [i \in 1..Len(keys) |-> IF i = 1 THEN m + 6 ELSE m + 3]) >>
          /\ variables = {ClassId} \cup (m + 1..m + 7)
          /\ policies = <<>>
          /\ no_side_effect_tools = NO_SIDE_EFFECT_TOOLS
          /\ tool_calls = <<>>
          /\ pipeline = "PrivilegedLLM"
          /\ attempts = <<>>
          /\ evaluated = <<>>
          /\ messages = <<Message("user", <<"query">>, 0, 0)>>
          /\ execution_trace = <<>>

NextDict ==
    \/ \E self \in Values, key \in {v \in Values : heap[v].kind \in KeyKinds}, value \in Values :
          set_key(self, key, value)
    \/ \E self \in Values, key \in {v \in Values : heap[v].kind \in KeyKinds} : get(self, key)

SpecDict == InitDict /\ [][NextDict]_vars

\* the positions of the keys of d whose payload equals that of k
RawEqualKeys(d, k) == {i \in 1..Len(heap[d].keys) : raw_eq(heap[d].keys[i], k)}

\* C30: after d.set_key(k, v), d.get(k) returns v with d and k appended to
\* its dependencies, d holds exactly one key whose payload equals that of
\* k, and every key of d with another payload still has its value; and
\* d.get(k) raises KeyError when no key of d has the payload of k.
C30_DictRoundTrip ==
    \A n \in 1..Len(evaluated) :
        LET e == evaluated[n]
            d == e.operands[1]
            k == e.operands[2]
        IN  /\ e.op = "set_key" =>
                 /\ mapping_get(heap, d, k) =
                        [error |-> "", result |-> <<new_with_dependencies(heap[e.operands[3]], <<d, k>>)>>]
                 /\ Cardinality(RawEqualKeys(d, k)) = 1
                 /\ \A i \in 1..Len(e.raws[1]) :
                        ~raw_eq(e.raws[1][i], k) =>
                            \E j \in RawEqualKeys(d, e.raws[1][i]) : heap[d].elems[j] = e.raws[2][i]
            /\ e.op = "get" /\ RawEqualKeys(d, k) = {} => e.error = "KeyError"

====
